---- MODULE Spec2Model ----
(***************************************************************************)
(* Scribe: a log-ingest and query service.                                 *)
(*   src/src/trie/mod.rs        the prefix trie (Node)                     *)
(*   src/src/dictionary/mod.rs  the tokenizing dictionary (Module)         *)
(*   src/src/repository/sql.rs  the relational log store (WarehouseSql)    *)
(*   src/src/main.rs            the /save and /read handlers               *)
(*                                                                         *)
(* A string is a sequence of one-character strings.  A trie is a function  *)
(* from the paths of its nodes (the root is the empty path) to the node's  *)
(* num; a node has child c exactly when its path extended by c is a node.  *)
(***************************************************************************)
EXTENDS Integers, Sequences, FiniteSets, TLC

NoRet == [op |-> "none"]     \* ret before any operation has run

VARIABLES
    words_to_numbers,       \* Module.words_to_numbers : word -> id
    nums_to_words,          \* Module.nums_to_words    : id -> word
    last_available_number,  \* Module.last_available_number
    filter,                 \* Module.filter: the trie owned by the dictionary
    logs,                   \* the rows of table logs, in insertion order
    endian,                 \* byte order of the host the process runs on
    ret,                    \* the last operation with its arguments and its result
    issued,                 \* history: every (token, id) pair serialize has returned
    tasks,                  \* the request tasks of the server: position and locals
    lock,                   \* the RwLock around the Module: its writer, its readers,
                            \* the tasks parked in write(), whether it is poisoned
    serializer,             \* the committed rows of table serializer: (word, num)
    schema                  \* the tables and indexes of the database

vars == <<words_to_numbers, nums_to_words, last_available_number, filter,
          logs, endian, ret, issued, tasks, lock, serializer, schema>>

\* no request task is running and the lock is free
NoTasks == <<>>
Unlocked == [writer |-> 0, readers |-> {}, waiting |-> {}, poisoned |-> FALSE]

----------------------------------------------------------------------------
(* Bounds of the model. *)

MaxTextLen == 4      \* longest text handed to serialize
MaxNum == 2          \* serialize is called while last_available_number < MaxNum
MaxWordLen == 2      \* longest word pushed into a bare trie
MaxPrefixLen == 2    \* longest prefix queried
MaxPushes == 3       \* pushes into a bare trie
MaxBufs == 2         \* buffers handed to a filter
MaxBufLen == 2       \* ids in one buffer
MaxWords == 2        \* words listed in a call of filter_word
MaxQueryWordLen == 1 \* longest word listed in a call of filter_word
MaxLogs == 2         \* rows in table logs
MaxLogTextLen == 3   \* longest text posted to /save
MaxLogWordLen == 2   \* longest word of a text posted to /save
MaxReadWordLen == 1  \* longest prefix or word posted to /read
MaxReadWords == 1    \* words posted to /read
MaxLoadId == 2       \* largest id of a map handed to set_map_from
MaxCalls == 3        \* calls made on a Module that is bulk-loaded
MaxTasks == 2        \* concurrent requests
MaxThreads == 2      \* worker threads of the HTTP server
TsBits == 2          \* stands for the 64 bits of a timestamp (u64 / i64)
IdBits == 1          \* stands for the 32 bits of an id (u32)
NsPerMs == 2         \* stands for the 1,000,000 ns of a millisecond

----------------------------------------------------------------------------
(* Strings. *)

None == -1                       \* Option::None of an Option<u32>
Letters == {"a", "A", "b"}       \* characters of the words pushed into a bare trie
TextLetters == {"a", "b"}        \* non-whitespace characters of a text
Whitespace == {" ", "\t"}        \* characters char::is_whitespace accepts
Space == " "

IsWs(c) == c \in Whitespace

RECURSIVE SeqsUpTo(_, _)
SeqsUpTo(S, n) ==
    IF n = 0 THEN {<<>>}
    ELSE LET shorter == SeqsUpTo(S, n - 1)
         IN  shorter \cup {Append(s, x) : s \in shorter, x \in S}

Range(s) == {s[i] : i \in 1..Len(s)}

StartsWith(w, p) == Len(p) <= Len(w) /\ SubSeq(w, 1, Len(p)) = p

\* the letters with two cases: the ASCII letters and U+00E9 / U+00C9
LowerCase == <<"a", "b", "c", "d", "e", "f", "g", "h", "i", "j", "k", "l", "m",
               "n", "o", "p", "q", "r", "s", "t", "u", "v", "w", "x", "y", "z", "é">>
UpperCase == <<"A", "B", "C", "D", "E", "F", "G", "H", "I", "J", "K", "L", "M",
               "N", "O", "P", "Q", "R", "S", "T", "U", "V", "W", "X", "Y", "Z", "É">>

\* char::to_uppercase().next() and char::to_lowercase().next()
ToUpper(c) ==
    IF \E i \in DOMAIN LowerCase : LowerCase[i] = c
    THEN UpperCase[CHOOSE i \in DOMAIN LowerCase : LowerCase[i] = c]
    ELSE c
ToLower(c) ==
    IF \E i \in DOMAIN UpperCase : UpperCase[i] = c
    THEN LowerCase[CHOOSE i \in DOMAIN UpperCase : UpperCase[i] = c]
    ELSE c

\* char::len_utf8: U+00E9 and U+00C9 take two bytes, the ASCII letters one
Utf8Len(c) == IF c \in {"é", "É"} THEN 2 ELSE 1

\* `&s[k..]` for a byte offset k: the characters from byte k on, or
\* NotCharBoundary, where the slice panics, when byte k lies inside a
\* character or past the end
NotCharBoundary == <<"not a char boundary">>
RECURSIVE str_from(_, _)
str_from(s, k) ==
    IF k = 0 THEN s
    ELSE IF s = <<>> \/ Utf8Len(Head(s)) > k THEN NotCharBoundary
    ELSE str_from(Tail(s), k - Utf8Len(Head(s)))

\* str::trim_start, str::trim_end, str::trim
RECURSIVE TrimStart(_)
TrimStart(s) ==
    IF s # <<>> /\ IsWs(Head(s)) THEN TrimStart(Tail(s)) ELSE s

RECURSIVE TrimEnd(_)
TrimEnd(s) ==
    IF s # <<>> /\ IsWs(s[Len(s)]) THEN TrimEnd(SubSeq(s, 1, Len(s) - 1)) ELSE s

Trim(s) == TrimEnd(TrimStart(s))

\* str::split_whitespace: the maximal runs of non-whitespace characters
RECURSIVE SplitFrom(_, _, _)
SplitFrom(s, cur, acc) ==
    IF s = <<>> THEN (IF cur = <<>> THEN acc ELSE Append(acc, cur))
    ELSE IF IsWs(Head(s))
         THEN SplitFrom(Tail(s), <<>>, IF cur = <<>> THEN acc ELSE Append(acc, cur))
         ELSE SplitFrom(Tail(s), Append(cur, Head(s)), acc)

split_whitespace(s) == SplitFrom(s, <<>>, <<>>)

----------------------------------------------------------------------------
(* The trie: src/src/trie/mod.rs *)

NoNode == <<"no node">>          \* the walk left the trie

\* Node::new
NewNode == [p \in {<<>>} |-> None]

HasChild(t, self, c) == Append(self, c) \in DOMAIN t

Children(t, self) ==
    {q \in DOMAIN t : Len(q) = Len(self) + 1 /\ SubSeq(q, 1, Len(self)) = self}

\* `if let Some(num) = node.num { nums.insert(num) }`
NumSet(t, self) == IF t[self] # None THEN {t[self]} ELSE {}

\* the loop `for c in s.chars() { curr = curr.nodes.get(&c)? }`
RECURSIVE Descend(_, _, _)
Descend(t, curr, s) ==
    IF s = <<>> THEN curr
    ELSE IF HasChild(t, curr, Head(s))
         THEN Descend(t, Append(curr, Head(s)), Tail(s))
         ELSE NoNode

\* push that marks every node on the path of s, not its last node alone
push_marking_path(t, s, num) ==
    LET path == {SubSeq(s, 1, i) : i \in 1..Len(s)}
    IN  [p \in DOMAIN t \cup path |-> IF p \in path THEN num
                                      ELSE t[p]]

\* Filter::push for Node
push(t, s, num) ==
    LET path == {SubSeq(s, 1, i) : i \in 0..Len(s)}
        grown == [p \in DOMAIN t \cup path |-> IF p \in DOMAIN t THEN t[p] ELSE None]
    IN  [grown EXCEPT ![s] = num]

\* Node::find_match
find_match(t, s) ==
    LET curr == Descend(t, <<>>, s)
    IN  IF curr = NoNode THEN None ELSE t[curr]

\* Node::append_inner
RECURSIVE append_inner(_, _)
append_inner(t, self) ==
    UNION {NumSet(t, next) \cup append_inner(t, next) : next \in Children(t, self)}

\* the `while !nodes.is_empty()` loop of Node::collect_numbers, level by level
RECURSIVE CollectLevels(_, _)
CollectLevels(t, nodes) ==
    IF nodes = {} THEN {}
    ELSE UNION {NumSet(t, element) : element \in nodes}
         \cup CollectLevels(t, UNION {Children(t, element) : element \in nodes})

\* collect_numbers that leaves out the num of the node it starts at
collect_numbers_below(t, self) == CollectLevels(t, Children(t, self))

\* Node::collect_numbers
collect_numbers(t, self) ==
    NumSet(t, self) \cup CollectLevels(t, Children(t, self))

\* Filter::find_prefix for Node
find_prefix(t, s) ==
    LET curr == Descend(t, <<>>, s)
    IN  IF curr = NoNode THEN {} ELSE collect_numbers(t, curr)

\* Filter::find_prefix_case_insensitive for Node, called on node self.
\* The loop runs over every character of s at the same node self, and each
\* found child is searched with `&s[idx + 1..]`, idx the position of the
\* character counted in characters and used as a byte offset.  A result
\* that holds Panicked stands for a call that panicked in that slice.
Panicked == -2
RECURSIVE find_prefix_case_insensitive_at(_, _, _)
find_prefix_case_insensitive_at(t, self, s) ==
    LET Branch(c, rest) ==
            IF HasChild(t, self, c)
            THEN IF rest = NotCharBoundary THEN {Panicked}
                 ELSE NumSet(t, Append(self, c))
                      \cup find_prefix_case_insensitive_at(t, Append(self, c), rest)
            ELSE {}
    IN  UNION {Branch(ToUpper(s[idx]), str_from(s, idx))
               \cup Branch(ToLower(s[idx]), str_from(s, idx))
               : idx \in 1..Len(s)}
        \cup (IF s = <<>> THEN append_inner(t, self) ELSE {})

find_prefix_case_insensitive(t, s) == find_prefix_case_insensitive_at(t, <<>>, s)

----------------------------------------------------------------------------
(* The dictionary: src/src/dictionary/mod.rs.  A Module is the record      *)
(* [words_to_numbers, nums_to_words, last_available_number, filter].       *)

EmptyMap == [k \in {} |-> None]

\* HashMap::insert
Insert(m, k, v) == [x \in DOMAIN m \cup {k} |-> IF x = k THEN v ELSE m[x]]

Unknown == <<"[", "?", "]">>     \* the placeholder "[?]"

\* Module::new over a real trie
NewModule ==
    [words_to_numbers |-> EmptyMap,
     nums_to_words |-> EmptyMap,
     last_available_number |-> 0,
     filter |-> NewNode]

\* the closure with the lookup of the token dropped: every token is minted
serialize_token_always_new(d, token) ==
    LET n == d.last_available_number + 1
    IN  [dict |-> [words_to_numbers |-> Insert(d.words_to_numbers, token, n),
                   nums_to_words |-> Insert(d.nums_to_words, n, token),
                   last_available_number |-> n,
                   filter |-> push(d.filter, token, n)],
         num |-> n]

\* the closure numbering a new token before the counter is incremented
serialize_token_post_increment(d, token) ==
    IF token \in DOMAIN d.words_to_numbers
    THEN [dict |-> d, num |-> d.words_to_numbers[token]]
    ELSE LET n == d.last_available_number
         IN  [dict |-> [words_to_numbers |-> Insert(d.words_to_numbers, token, n),
                        nums_to_words |-> Insert(d.nums_to_words, n, token),
                        last_available_number |-> n + 1,
                        filter |-> push(d.filter, token, n)],
              num |-> n]

\* the closure of Module::serialize applied to one token:
\* the module after it, and the number it returns
serialize_token(d, token) ==
    IF token \in DOMAIN d.words_to_numbers
    THEN [dict |-> d, num |-> d.words_to_numbers[token]]
    ELSE LET n == d.last_available_number + 1
         IN  [dict |-> [words_to_numbers |-> Insert(d.words_to_numbers, token, n),
                        nums_to_words |-> Insert(d.nums_to_words, n, token),
                        last_available_number |-> n,
                        filter |-> push(d.filter, token, n)],
              num |-> n]

RECURSIVE serialize_tokens(_, _, _)
serialize_tokens(d, tokens, out) ==
    IF tokens = <<>> THEN [dict |-> d, out |-> out]
    ELSE LET r == serialize_token(d, Head(tokens))
         IN  serialize_tokens(r.dict, Tail(tokens), Append(out, r.num))

\* Module::serialize: the module after the call, and the Vec<u32> returned
serialize(d, log) == serialize_tokens(d, split_whitespace(log), <<>>)

\* the loop pushing nothing, neither "[?]" nor the space, for an unknown id
RECURSIVE deserialize_loop_skips_unknown(_, _, _)
deserialize_loop_skips_unknown(d, buffer, msg) ==
    IF buffer = <<>> THEN msg
    ELSE LET candidate == Head(buffer)
         IN  IF candidate \in DOMAIN d.nums_to_words
             THEN deserialize_loop_skips_unknown(d, Tail(buffer),
                      (msg \o d.nums_to_words[candidate]) \o <<Space>>)
             ELSE deserialize_loop_skips_unknown(d, Tail(buffer), msg)

\* the loop of Module::deserialize
RECURSIVE deserialize_loop(_, _, _)
deserialize_loop(d, buffer, msg) ==
    IF buffer = <<>> THEN msg
    ELSE LET candidate == Head(buffer)
             w == IF candidate \in DOMAIN d.nums_to_words
                  THEN d.nums_to_words[candidate]
                  ELSE Unknown
         IN  deserialize_loop(d, Tail(buffer), (msg \o w) \o <<Space>>)

\* deserialize without the final trim
deserialize_untrimmed(d, buffer) == deserialize_loop(d, buffer, <<>>)

\* Module::deserialize
deserialize(d, buffer) == Trim(deserialize_loop(d, buffer, <<>>))

\* the loop without `continue 'outer`: a buffer is pushed once for each of its
\* members found in set
RECURSIVE retain_loop_per_member(_, _, _)
retain_loop_per_member(set, buffers, filtered) ==
    IF buffers = <<>> THEN filtered
    ELSE LET buf == Head(buffers)
             hits == Cardinality({i \in 1..Len(buf) : buf[i] \in set})
         IN  retain_loop_per_member(set, Tail(buffers),
                 filtered \o [k \in 1..hits |-> buf])

\* the loop `'outer: for buf in buffers` shared by filter_prefixed and filter_word:
\* a buffer is pushed at its first member found in set, then the next buffer is taken
RECURSIVE retain_loop(_, _, _)
retain_loop(set, buffers, filtered) ==
    IF buffers = <<>> THEN filtered
    ELSE LET buf == Head(buffers)
         IN  retain_loop(set, Tail(buffers),
                         IF \E i \in 1..Len(buf) : buf[i] \in set
                         THEN Append(filtered, buf)
                         ELSE filtered)

\* Module::filter_prefixed
filter_prefixed(d, word, buffers) ==
    retain_loop(find_prefix(d.filter, word), buffers, <<>>)

\* filter_word taking each listed word as a prefix instead of as a key
filter_word_as_prefixes(d, words, buffers) ==
    retain_loop(UNION {find_prefix(d.filter, words[i]) : i \in 1..Len(words)},
                buffers, <<>>)

\* Module::filter_word
filter_word(d, words, buffers) ==
    LET set == {d.words_to_numbers[words[i]] :
                    i \in {j \in 1..Len(words) : words[j] \in DOMAIN d.words_to_numbers}}
    IN  retain_loop(set, buffers, <<>>)

\* the Module held in the state
Dict ==
    [words_to_numbers |-> words_to_numbers,
     nums_to_words |-> nums_to_words,
     last_available_number |-> last_available_number,
     filter |-> filter]

----------------------------------------------------------------------------
(* A bare trie under push and its queries: specification SpecTrie.         *)
(* filter is the trie; issued records the (word, num) pairs pushed.  The    *)
(* words pushed are distinct and numbered in push order, as the tests of   *)
(* the trie number them.                                                   *)

Words == SeqsUpTo(Letters, MaxWordLen) \ {<<>>}    \* a token is never empty
Prefixes == SeqsUpTo(Letters, MaxPrefixLen)
PushedWords == {p[1] : p \in issued}

InitTrie ==
    /\ words_to_numbers = EmptyMap
    /\ nums_to_words = EmptyMap
    /\ last_available_number = 0
    /\ filter = NewNode
    /\ logs = <<>>
    /\ endian = "le"
    /\ serializer = {}
    /\ schema = {}
    /\ ret = NoRet
    /\ issued = {}
    /\ tasks = NoTasks
    /\ lock = Unlocked

TriePush(s, num) ==
    /\ Cardinality(issued) < MaxPushes
    /\ s \notin PushedWords
    /\ filter' = push(filter, s, num)
    /\ issued' = issued \cup {<<s, num>>}
    /\ ret' = [op |-> "push", s |-> s, num |-> num]
    /\ UNCHANGED <<words_to_numbers, nums_to_words, last_available_number, logs, endian, serializer, schema>>
    /\ UNCHANGED <<tasks, lock>>

TrieFindMatch(s) ==
    /\ ret' = [op |-> "find_match", s |-> s, out |-> find_match(filter, s)]
    /\ UNCHANGED <<words_to_numbers, nums_to_words, last_available_number, filter,
                   logs, endian, serializer, schema, issued>>
    /\ UNCHANGED <<tasks, lock>>

TrieFindPrefix(s) ==
    /\ ret' = [op |-> "find_prefix", s |-> s, out |-> find_prefix(filter, s)]
    /\ UNCHANGED <<words_to_numbers, nums_to_words, last_available_number, filter,
                   logs, endian, serializer, schema, issued>>
    /\ UNCHANGED <<tasks, lock>>

TrieFindPrefixCaseInsensitive(s) ==
    /\ ret' = [op |-> "find_prefix_case_insensitive", s |-> s,
               out |-> find_prefix_case_insensitive(filter, s)]
    /\ UNCHANGED <<words_to_numbers, nums_to_words, last_available_number, filter,
                   logs, endian, serializer, schema, issued>>
    /\ UNCHANGED <<tasks, lock>>

NextTrie ==
    \/ \E s \in Words : TriePush(s, Cardinality(issued))
    \/ \E s \in Words : TrieFindMatch(s)
    \/ \E s \in Prefixes : TrieFindPrefix(s)
    \/ \E s \in Prefixes : TrieFindPrefixCaseInsensitive(s)

SpecTrie == InitTrie /\ [][NextTrie]_vars

\* C5: find_prefix(prefix) is exactly the set of nums whose pushed word starts
\* with prefix (the word equal to prefix included; every num for the empty
\* prefix; the empty set when no pushed word has the prefix).
C5_FindPrefixExact ==
    ret.op = "find_prefix" =>
        ret.out = {p[2] : p \in {q \in issued : StartsWith(q[1], ret.s)}}

\* a non-empty prefix that is itself a pushed word, has a longer pushed word
\* below it, and leaves out another pushed word
C5_Witness ==
    /\ ret.op = "find_prefix"
    /\ ret.s # <<>>
    /\ \E p, q, r \in issued :
          /\ p[1] = ret.s
          /\ StartsWith(q[1], ret.s) /\ Len(q[1]) > Len(ret.s)
          /\ ~StartsWith(r[1], ret.s)
          /\ {p[2], q[2]} \subseteq ret.out
          /\ r[2] \notin ret.out

\* every string obtained from s by upper- or lower-casing each character
RECURSIVE CaseVariants(_)
CaseVariants(s) ==
    IF s = <<>> THEN {<<>>}
    ELSE {<<c>> \o v : c \in {ToUpper(Head(s)), ToLower(Head(s))},
                       v \in CaseVariants(Tail(s))}

\* C6: find_prefix_case_insensitive(prefix) equals the union of find_prefix
\* over the case variants of prefix, so it holds no num of a word that does
\* not start with a case variant of the whole prefix.
C6_CaseInsensitiveIsUnion ==
    ret.op = "find_prefix_case_insensitive" =>
        ret.out = UNION {find_prefix(filter, v) : v \in CaseVariants(ret.s)}

----------------------------------------------------------------------------
(* One dictionary under serialize and deserialize: specification SpecDict. *)
(* issued records every (token, number) pair a serialize call returned.    *)

Texts == SeqsUpTo(TextLetters \cup Whitespace, MaxTextLen)
Ids == 1..(MaxNum + 1)
Buffers == SeqsUpTo(Ids, MaxBufLen)

InitDict ==
    /\ words_to_numbers = NewModule.words_to_numbers
    /\ nums_to_words = NewModule.nums_to_words
    /\ last_available_number = NewModule.last_available_number
    /\ filter = NewModule.filter
    /\ logs = <<>>
    /\ endian = "le"
    /\ serializer = {}
    /\ schema = {}
    /\ ret = NoRet
    /\ issued = {}
    /\ tasks = NoTasks
    /\ lock = Unlocked

SetDict(d) ==
    /\ words_to_numbers' = d.words_to_numbers
    /\ nums_to_words' = d.nums_to_words
    /\ last_available_number' = d.last_available_number
    /\ filter' = d.filter

Serialize(log) ==
    /\ last_available_number < MaxNum
    /\ LET r == serialize(Dict, log)
           tokens == split_whitespace(log)
       IN  /\ SetDict(r.dict)
           /\ ret' = [op |-> "serialize", log |-> log, out |-> r.out,
                       before |-> last_available_number]
           /\ issued' = issued \cup {<<tokens[i], r.out[i]>> : i \in 1..Len(r.out)}
    /\ UNCHANGED <<logs, endian, serializer, schema>>
    /\ UNCHANGED <<tasks, lock>>

Deserialize(buffer) ==
    /\ ret' = [op |-> "deserialize", buffer |-> buffer, out |-> deserialize(Dict, buffer)]
    /\ UNCHANGED <<words_to_numbers, nums_to_words, last_available_number, filter,
                   logs, endian, serializer, schema, issued>>
    /\ UNCHANGED <<tasks, lock>>

NextDict ==
    \/ \E log \in Texts : Serialize(log)
    \/ \E buffer \in Buffers : Deserialize(buffer)

SpecDict == InitDict /\ [][NextDict]_vars

\* C1: a token always receives the same id: no two serialize calls, and no
\* two places of one call, have returned different ids for one token.
C1_StableIds ==
    \A p \in issued : \A q \in issued : p[1] = q[1] => p[2] = q[2]

\* the last call returns the id 1 an earlier call minted, then mints the id 2
C1_Witness ==
    /\ ret.op = "serialize"
    /\ ret.before = 1
    /\ ret.out = <<1, 2>>

\* runs of whitespace collapsed to one space, both ends trimmed
RECURSIVE Collapse(_)
Collapse(s) ==
    IF s = <<>> THEN <<>>
    ELSE IF ~IsWs(Head(s)) THEN <<Head(s)>> \o Collapse(Tail(s))
    ELSE IF Len(s) >= 2 /\ IsWs(s[2]) THEN Collapse(Tail(s))
    ELSE <<Space>> \o Collapse(Tail(s))

normalize_ws(s) == Collapse(TrimEnd(TrimStart(s)))

\* C2: deserialize(serialize(text)) is text with every run of whitespace
\* collapsed to a single space and the ends trimmed.
C2_RoundTrip ==
    ret.op = "serialize" => deserialize(Dict, ret.out) = normalize_ws(ret.log)

\* a text with a run of two different whitespace characters between two
\* tokens, which deserialize gives back with one space between them
C2_Witness ==
    /\ ret.op = "serialize"
    /\ Len(ret.log) = 4
    /\ IsWs(ret.log[2]) /\ IsWs(ret.log[3]) /\ ret.log[2] # ret.log[3]
    /\ Len(ret.out) = 2
    /\ Len(deserialize(Dict, ret.out)) = 3

\* C3: on a fresh dictionary ids are given in order of first occurrence from
\* 1 without gaps: the ids in use are exactly 1..last_available_number (never
\* 0), each held by one word; serialize returns one id per token in token
\* order (none for an empty or whitespace-only text); a token known before
\* the call keeps its id, and the k-th new token of the call gets the id k
\* above the counter's value before the call, at each of its occurrences.
C3_FirstOccurrenceOrder ==
    /\ {words_to_numbers[w] : w \in DOMAIN words_to_numbers} = 1..last_available_number
    /\ Cardinality(DOMAIN words_to_numbers) = last_available_number
    /\ ret.op = "serialize" =>
          LET tokens == split_whitespace(ret.log)
              IsNew(i) == ret.out[i] > ret.before
          IN  /\ Len(ret.out) = Len(tokens)
              /\ (\A c \in Range(ret.log) : IsWs(c)) => ret.out = <<>>
              /\ \A i \in 1..Len(tokens) :
                    /\ ret.out[i] = words_to_numbers[tokens[i]]
                    /\ ret.out[i] >= 1
                    /\ IsNew(i) =>
                          LET first == CHOOSE j \in 1..i :
                                  /\ tokens[j] = tokens[i]
                                  /\ \A k \in 1..(j - 1) : tokens[k] # tokens[i]
                          IN  ret.out[i] = ret.before
                                  + Cardinality({tokens[j] : j \in {k \in 1..first : IsNew(k)}})
                    /\ ~IsNew(i) => <<tokens[i], ret.out[i]>> \in issued

\* a call on a dictionary holding one word mints the id 2 for a new token and
\* returns it again for the same token
C3_Witness ==
    /\ ret.op = "serialize"
    /\ ret.before = 1
    /\ ret.out = <<2, 2>>

\* C4: the trie agrees with word->id: find_match(word) is the id of every
\* word of the dictionary, and no other string has a terminal id (the root's
\* num stays None).
C4_TrieMatchesDictionary ==
    /\ \A w \in DOMAIN words_to_numbers : find_match(filter, w) = words_to_numbers[w]
    /\ \A p \in DOMAIN filter : filter[p] # None => p \in DOMAIN words_to_numbers
    /\ filter[<<>>] = None

\* two words, one a proper prefix of the other, and a node that ends no word
C4_Witness ==
    /\ \E v \in DOMAIN words_to_numbers : \E w \in DOMAIN words_to_numbers :
          /\ v # w /\ StartsWith(w, v)
          /\ find_match(filter, v) = 1 /\ find_match(filter, w) = 2
    /\ \E p \in DOMAIN filter : p # <<>> /\ filter[p] = None

----------------------------------------------------------------------------
(* The filters of a dictionary: specification SpecFilter.  The dictionary  *)
(* is the one serialize builds from one text; a behaviour makes one filter *)
(* call (the filters take &self and change nothing).                       *)

\* stored buffers hold ids the dictionary has issued, or the next one, which
\* it has not
BufferLists(last) == SeqsUpTo(SeqsUpTo(1..(last + 1), MaxBufLen), MaxBufs)
QueryPrefixes == SeqsUpTo(TextLetters, MaxPrefixLen)
QueryWords == SeqsUpTo(SeqsUpTo(TextLetters, MaxQueryWordLen), MaxWords)

InitFilter ==
    /\ \E log \in Texts :
          LET d == serialize(NewModule, log).dict
          IN  /\ words_to_numbers = d.words_to_numbers
              /\ nums_to_words = d.nums_to_words
              /\ last_available_number = d.last_available_number
              /\ filter = d.filter
    /\ logs = <<>>
    /\ endian = "le"
    /\ serializer = {}
    /\ schema = {}
    /\ ret = NoRet
    /\ issued = {}
    /\ tasks = NoTasks
    /\ lock = Unlocked

FilterPrefixed(word, buffers) ==
    /\ ret = NoRet
    /\ ret' = [op |-> "filter_prefixed", word |-> word, buffers |-> buffers,
               out |-> filter_prefixed(Dict, word, buffers)]
    /\ UNCHANGED <<words_to_numbers, nums_to_words, last_available_number, filter,
                   logs, endian, serializer, schema, issued>>
    /\ UNCHANGED <<tasks, lock>>

FilterWord(words, buffers) ==
    /\ ret = NoRet
    /\ ret' = [op |-> "filter_word", words |-> words, buffers |-> buffers,
               out |-> filter_word(Dict, words, buffers)]
    /\ UNCHANGED <<words_to_numbers, nums_to_words, last_available_number, filter,
                   logs, endian, serializer, schema, issued>>
    /\ UNCHANGED <<tasks, lock>>

NextFilter ==
    \/ \E word \in QueryPrefixes, buffers \in BufferLists(last_available_number) :
          FilterPrefixed(word, buffers)
    \/ \E words \in QueryWords, buffers \in BufferLists(last_available_number) :
          FilterWord(words, buffers)

SpecFilter == InitFilter /\ [][NextFilter]_vars

\* the sub-list of the buffers that satisfy Keep, in the order of the input
Retained(buffers, Keep(_)) == SelectSeq(buffers, Keep)

\* C7: filter_prefixed(prefix, logs) is exactly the sub-list of the logs
\* holding at least one id of find_prefix(prefix): each such log unchanged,
\* once, in input order.
C7_FilterPrefixedExact ==
    ret.op = "filter_prefixed" =>
        LET set == find_prefix(filter, ret.word)
            Keep(buf) == \E i \in 1..Len(buf) : buf[i] \in set
        IN  ret.out = Retained(ret.buffers, Keep)

\* a retained buffer with two ids of the prefix, after a dropped buffer
C7_Witness ==
    /\ ret.op = "filter_prefixed"
    /\ ret.word # <<>>
    /\ Len(ret.buffers) = 2
    /\ ret.out = <<ret.buffers[2]>>
    /\ ret.buffers[1] # <<>>
    /\ Len(ret.buffers[2]) = 2
    /\ ret.buffers[2][1] # ret.buffers[2][2]
    /\ Range(ret.buffers[2]) \subseteq find_prefix(filter, ret.word)

\* C8: filter_word(words, logs) is exactly the sub-list of the logs holding
\* the id of at least one listed word that is a key of word->id, in input
\* order; a word that is no key adds nothing, so when no listed word is
\* known the result is empty.
C8_FilterWordExact ==
    ret.op = "filter_word" =>
        LET known == Range(ret.words) \cap DOMAIN words_to_numbers
            Keep(buf) == \E w \in known : \E i \in 1..Len(buf) : buf[i] = words_to_numbers[w]
        IN  /\ ret.out = Retained(ret.buffers, Keep)
            /\ known = {} => ret.out = <<>>

\* a known and an unknown word listed; the first buffer is retained, the
\* second, which holds an id of no listed word, is dropped
C8_Witness ==
    /\ ret.op = "filter_word"
    /\ Len(ret.words) = 2
    /\ ret.words[1] \notin DOMAIN words_to_numbers
    /\ ret.words[2] \in DOMAIN words_to_numbers
    /\ Len(ret.buffers) = 2
    /\ ret.out = <<ret.buffers[1]>>
    /\ ret.buffers[2] # <<>>
    /\ Range(ret.buffers[2]) \subseteq DOMAIN nums_to_words

----------------------------------------------------------------------------
(* The relational log store: table logs (id, timestamp, data).  A row is   *)
(* [timestamp, data]; its id is its position in logs.                      *)

\* `x as i64` for an unsigned x: the low TsBits bits, read as two's complement
ToI64(x) ==
    LET m == x % (2 ^ TsBits)
    IN  IF m >= 2 ^ (TsBits - 1) THEN m - 2 ^ TsBits ELSE m

Reverse(s) == [i \in 1..Len(s) |-> s[Len(s) + 1 - i]]

\* u32::to_ne_bytes on a target of byte order e
to_ne_bytes(x, e) ==
    LET le == <<x % 256, (x \div 256) % 256, (x \div 65536) % 256, (x \div 16777216) % 256>>
    IN  IF e = "le" THEN le ELSE Reverse(le)

\* u32::from_le_bytes whatever the byte order of the target
from_le_bytes(b, e) == b[1] + 256 * b[2] + 65536 * b[3] + 16777216 * b[4]

\* u32::from_ne_bytes on a target of byte order e
from_ne_bytes(b, e) ==
    LET le == IF e = "le" THEN b ELSE Reverse(b)
    IN  le[1] + 256 * le[2] + 65536 * le[3] + 16777216 * le[4]

\* `for elem in input { data.extend(elem.to_ne_bytes()) }`
RECURSIVE pack(_, _)
pack(input, e) ==
    IF input = <<>> THEN <<>>
    ELSE to_ne_bytes(Head(input), e) \o pack(Tail(input), e)

\* `for (i, _) in data.iter().enumerate().step_by(4) { d.push(from_ne_bytes(..)) }`
RECURSIVE unpack(_, _)
unpack(data, e) ==
    IF data = <<>> THEN <<>>
    ELSE <<from_ne_bytes(SubSeq(data, 1, 4), e)>> \o unpack(SubSeq(data, 5, Len(data)), e)

\* an insert that replaces the rows stored so far (INSERT OR REPLACE on a
\* fixed key)
insert_log_replacing(rows, input, now, e) ==
    <<[timestamp |-> ToI64(now), data |-> pack(input, e)]>>

\* an insert that writes its row twice
insert_log_twice(rows, input, now, e) ==
    LET row == [timestamp |-> ToI64(now), data |-> pack(input, e)]
    IN  Append(Append(rows, row), row)

\* WarehouseSql::insert_log with the clock reading now
insert_log(rows, input, now, e) ==
    Append(rows, [timestamp |-> ToI64(now), data |-> pack(input, e)])

\* SELECT * FROM logs WHERE timestamp BETWEEN ? AND ?, as SQLite answers it
\* through timestamp_index: in the order of the timestamps, rows of one
\* timestamp in the order of their ids
select_between(rows, lo, hi) ==
    LET hit == {i \in 1..Len(rows) : lo <= rows[i].timestamp /\ rows[i].timestamp <= hi}
        Before(i, j) == \/ rows[i].timestamp < rows[j].timestamp
                        \/ rows[i].timestamp = rows[j].timestamp /\ i < j
        Rank(i) == Cardinality({j \in hit : Before(j, i)}) + 1
    IN  [k \in 1..Cardinality(hit) |-> rows[CHOOSE i \in hit : Rank(i) = k]]

\* the orders in which the SELECT, which has no ORDER BY, may hand out rows
\* (the order of the index is the choice of the query planner)
Orderings(rows) ==
    LET n == Len(rows)
        perms == {f \in [1..n -> 1..n] : \A i \in 1..n : \A j \in 1..n : f[i] = f[j] => i = j}
    IN  {[i \in 1..n |-> rows[f[i]]] : f \in perms}

\* WarehouseSql::find_logs on the fetched rows
find_logs_decode(rows, e) == [i \in 1..Len(rows) |-> unpack(rows[i].data, e)]

\* WarehouseSql::find_logs: every result the SELECT allows
find_logs(rows, from, to, e) ==
    {find_logs_decode(fetched, e) : fetched \in Orderings(select_between(rows, ToI64(from), ToI64(to)))}

\* Warehouse::get_logs, the same code in repository/mod.rs
get_logs(rows, from, to, e) == find_logs(rows, from, to, e)

\* u64 values of a bound posted to /read; readings of the clock, which stays
\* below 2^63 ns until the year 2262
U64 == 0..(2 ^ TsBits - 1)
Clock == 0..(2 ^ (TsBits - 1) - 1)

\* s and t hold the same elements the same number of times
SameBag(s, t) ==
    /\ Len(s) = Len(t)
    /\ \A x \in Range(s) \cup Range(t) :
          Cardinality({i \in 1..Len(s) : s[i] = x}) = Cardinality({i \in 1..Len(t) : t[i] = x})

----------------------------------------------------------------------------
(* The schema: src/src/repository/commands.rs and WarehouseSql::migrate.    *)
(* The schema is the set of the names of the tables and indexes created.   *)

\* SQL_COMMANDS: CREATE TABLE IF NOT EXISTS for the two tables, a plain
\* CREATE INDEX for the three indexes
SQL_COMMANDS ==
    <<[name |-> "logs", if_not_exists |-> TRUE],
      [name |-> "timestamp_index", if_not_exists |-> FALSE],
      [name |-> "serializer", if_not_exists |-> TRUE],
      [name |-> "word_index", if_not_exists |-> FALSE],
      [name |-> "num_index", if_not_exists |-> FALSE]>>

\* sqlx::query(&migration).execute(conn): creating an object that exists is
\* an error unless the statement says IF NOT EXISTS
execute(objs, cmd) ==
    IF cmd.name \in objs
    THEN [ok |-> cmd.if_not_exists, schema |-> objs]
    ELSE [ok |-> TRUE, schema |-> objs \cup {cmd.name}]

\* the loop of migrate from statement k on: each statement commits on its
\* own, the first error returns; the database fails statement fault_at
RECURSIVE migrate_from(_, _, _, _)
migrate_from(objs, cmds, k, fault_at) ==
    IF k > Len(cmds) THEN [ok |-> TRUE, schema |-> objs]
    ELSE IF fault_at = k THEN [ok |-> FALSE, schema |-> objs]
    ELSE LET r == execute(objs, cmds[k])
         IN  IF r.ok THEN migrate_from(r.schema, cmds, k + 1, fault_at)
             ELSE [ok |-> FALSE, schema |-> r.schema]

\* WarehouseSql::migrate.  fault_at: -1 pool.acquire fails, 0 no error of the
\* database, k the k-th execute fails
migrate(objs, fault_at) ==
    IF fault_at = -1 THEN [ok |-> FALSE, schema |-> objs]
    ELSE migrate_from(objs, SQL_COMMANDS, 1, fault_at)

\* the schema of a store that main has migrated before serving: main
\* returns when migrate fails
Migrated == migrate({}, 0).schema

----------------------------------------------------------------------------
(* The store alone: specification SpecStore.  issued is the sequence of    *)
(* the appends that succeeded, [input, now], one per row.                  *)

InitStore ==
    /\ words_to_numbers = NewModule.words_to_numbers
    /\ nums_to_words = NewModule.nums_to_words
    /\ last_available_number = NewModule.last_available_number
    /\ filter = NewModule.filter
    /\ logs = <<>>
    /\ endian \in {"le", "be"}
    /\ serializer = {}
    /\ schema = Migrated
    /\ ret = NoRet
    /\ issued = <<>>
    /\ tasks = NoTasks
    /\ lock = Unlocked

InsertLog(input, now, ok) ==
    /\ Len(logs) < MaxLogs
    /\ IF ok
       THEN /\ logs' = insert_log(logs, input, now, endian)
            /\ issued' = Append(issued, [input |-> input, now |-> now])
       ELSE UNCHANGED <<logs, issued>>
    /\ ret' = [op |-> "insert_log", ok |-> ok]
    /\ UNCHANGED <<words_to_numbers, nums_to_words, last_available_number, filter, endian, serializer, schema>>
    /\ UNCHANGED <<tasks, lock>>

FindLogs(from, to, ok) ==
    /\ IF ok
       THEN \E out \in find_logs(logs, from, to, endian) :
               ret' = [op |-> "find_logs", ok |-> TRUE, from |-> from, to |-> to, out |-> out]
       ELSE ret' = [op |-> "find_logs", ok |-> FALSE, from |-> from, to |-> to, out |-> <<>>]
    /\ UNCHANGED <<words_to_numbers, nums_to_words, last_available_number, filter,
                   logs, endian, serializer, schema, issued>>
    /\ UNCHANGED <<tasks, lock>>

\* id sequences appended to the store; 258 = 0x0102 has two non-zero bytes
StoreIds == {1, 2, 258}
StoreBuffers == SeqsUpTo(StoreIds, MaxBufLen)

NextStore ==
    \/ \E input \in StoreBuffers, now \in Clock, ok \in BOOLEAN : InsertLog(input, now, ok)
    \/ \E from \in U64, to \in U64, ok \in BOOLEAN : FindLogs(from, to, ok)

SpecStore == InitStore /\ [][NextStore]_vars

\* C10: for all unsigned 64-bit bounds from, to, bounds at or above 2^63
\* included, range(from, to) returns a log appended at t_a if and only if
\* from <= t_a <= to: the result holds exactly the appended logs whose time
\* lies between the bounds, each once.
C10_RangeInclusiveU64 ==
    (ret.op = "find_logs" /\ ret.ok) =>
        LET InRange(a) == ret.from <= a.now /\ a.now <= ret.to
            expected == SelectSeq(issued, InRange)
        IN  SameBag(ret.out, [i \in 1..Len(expected) |-> expected[i].input])

\* C11: append's packing and range's unpacking are inverse: every stored row
\* holds four bytes per id and unpacks to the id sequence appended for it,
\* and the records a range returns are, one for one, id sequences that were
\* appended: same length, same ids, same order.
C11_PackUnpackInverse ==
    /\ Len(logs) = Len(issued)
    /\ \A i \in 1..Len(logs) :
          /\ Len(logs[i].data) = 4 * Len(issued[i].input)
          /\ unpack(logs[i].data, endian) = issued[i].input
    /\ (ret.op = "find_logs" /\ ret.ok) =>
          \E rows \in SUBSET (1..Len(issued)) :
              LET picked == SelectSeq([i \in 1..Len(issued) |-> [at |-> i, input |-> issued[i].input]],
                                      LAMBDA a : a.at \in rows)
              IN  SameBag(ret.out, [k \in 1..Len(picked) |-> picked[k].input])

\* on a big-endian target a range returns two appended sequences, one of
\* them holding an id of more than one byte
C11_Witness ==
    /\ endian = "be"
    /\ ret.op = "find_logs"
    /\ ret.ok
    /\ Len(ret.out) = 2
    /\ ret.out[1] # ret.out[2]
    /\ \E k \in 1..2 : ret.out[k] = <<258, 1>>

----------------------------------------------------------------------------
(* The service: specification Spec.  POST /save and POST /read on one      *)
(* dictionary and one store: one /save and one /read may be in flight      *)
(* together, each on a worker thread of the server (any number of requests *)
(* of either kind is specification SpecConc).  A handler takes one step up *)
(* to its await; the store runs the INSERT or the SELECT in a step of its  *)
(* own while the handler is suspended, on no worker thread; the handler    *)
(* goes on when its thread polls it again.  issued is the sequence of the  *)
(* saves whose insert succeeded, [log, now], one per row.                  *)

\* an optional field of the Query
Some(x) == [present |-> TRUE, value |-> x]
Absent(x) == [present |-> FALSE, value |-> x]

\* texts posted to /save: words of at most MaxLogWordLen letters, single spaces
\* between them (serialize on any other whitespace is specification SpecDict)
LogTexts ==
    {t \in SeqsUpTo(TextLetters \cup {Space}, MaxLogTextLen) :
        /\ t # <<>> => Head(t) # Space /\ t[Len(t)] # Space
        /\ \A i \in 1..(Len(t) - 1) : t[i] # Space \/ t[i + 1] # Space
        /\ \A w \in Range(split_whitespace(t)) : Len(w) <= MaxLogWordLen}
\* texts posted to /save of the service: no token, one token, two tokens
SaveTexts == {<<>>, <<"a">>, <<"b">>, <<"a", " ", "b">>}
\* bounds posted to /read.  from: 0, u64::MAX; to: 0, i64::MAX (the largest
\* reading of the clock), u64::MAX
ReadFrom == {0, 2 ^ TsBits - 1}
ReadTo == {0, 2 ^ (TsBits - 1) - 1, 2 ^ TsBits - 1}
ReadPrefixes ==
    {Absent(<<>>)} \cup {Some(w) : w \in SeqsUpTo(TextLetters, MaxReadWordLen)}
\* words posted to /read: none, an empty list, a list of non-empty words
ReadWords ==
    {Absent(<<>>)}
    \cup {Some(ws) : ws \in SeqsUpTo(SeqsUpTo(TextLetters, MaxReadWordLen) \ {<<>>},
                                     MaxReadWords)}

\* read_logs after get_logs returned fetched
read_logs_body(d, fetched, prefix, words) ==
    LET l1 == IF prefix.present THEN filter_prefixed(d, prefix.value, fetched) ELSE fetched
        l2 == IF words.present THEN filter_word(d, words.value, l1) ELSE l1
    IN  [i \in 1..Len(l2) |-> deserialize(d, l2[i])]

\* RwLock::write returns at once whatever the lock holds
can_write_always(l) == TRUE

\* RwLock::write is granted: no writer and no reader holds the lock
can_write(l) == l.writer = 0 /\ l.readers = {}

\* RwLock::read is granted: no writer holds the lock and no writer is
\* parked waiting for it (the futex RwLock of std lets no new reader in
\* while a writer waits)
can_read(l) == l.writer = 0 /\ l.waiting = {}

\* the guard of task t is dropped
drop_guard(l, t) ==
    LET writer == IF l.writer = t THEN 0 ELSE l.writer
        readers == l.readers \ {t}
    IN  [l EXCEPT !.writer = writer, !.readers = readers,
                  !.waiting = IF writer = 0 /\ readers = {} THEN {} ELSE @]

\* the worker threads of the server; a request is a task of one of them
Threads == 1..MaxThreads

\* the /save and the /read in flight, each on its thread.  save_log awaits
\* insert_log holding the write guard; read_logs awaits get_logs and takes
\* the read guard after it.  The guards are held as task 1 (the save) and
\* task 2 (the read).  io is the store operation of the request: "none"
\* before it starts one, "pending" until the store has run it, then "ok" or
\* "err".  seen is the number of rows the table held when the SELECT ran
IdleSave == [pc |-> "idle", thread |-> 0, log |-> <<>>, buf |-> <<>>, io |-> "none"]
IdleRead ==
    [pc |-> "idle", thread |-> 0, from |-> 0, to |-> 0, prefix |-> Absent(<<>>),
     words |-> Absent(<<>>), io |-> "none", fetched |-> <<>>, seen |-> 0]

\* the /read runs on thread th: it was polled after get_logs and is at the
\* call of state.dict.read(), which returns the guard or blocks the thread.
\* (A request suspended at its await is on no thread, and the /save is on
\* its thread only within a step.)
ReadOn(th) == tasks.read.pc = "read" /\ tasks.read.thread = th

Init ==
    /\ words_to_numbers = NewModule.words_to_numbers
    /\ nums_to_words = NewModule.nums_to_words
    /\ last_available_number = NewModule.last_available_number
    /\ filter = NewModule.filter
    /\ logs = <<>>
    /\ endian = "le"
    /\ serializer = {}
    /\ schema = Migrated
    /\ ret = NoRet
    /\ issued = <<>>
    /\ tasks = [save |-> IdleSave, read |-> IdleRead]
    /\ lock = Unlocked

\* POST /save arrives on thread th, whether or not a /read is in flight,
\* and runs up to the await of insert_log: the write guard is taken and the
\* log is serialized.  The request has no answer yet
SaveLogSerialize(log, th) ==
    /\ tasks.save.pc = "idle"
    /\ ~ReadOn(th)
    /\ can_write(lock)
    /\ last_available_number < MaxNum
    /\ Len(logs) < MaxLogs
    /\ LET r == serialize(Dict, log)
       IN  /\ SetDict(r.dict)
           /\ tasks' = [tasks EXCEPT !.save = [pc |-> "insert_log", thread |-> th,
                                               log |-> log, buf |-> r.out,
                                               io |-> "pending"]]
    /\ lock' = [lock EXCEPT !.writer = 1]
    /\ ret' = NoRet
    /\ UNCHANGED <<logs, endian, serializer, schema, issued>>

\* the INSERT of insert_log runs in the store, at the clock reading now,
\* while save_log is suspended holding the guard; ok tells whether it
\* succeeded.  SQLite runs the statement as a whole: the row is in the
\* table exactly when execute returns Ok
SaveLogInsert(now, ok) ==
    /\ tasks.save.pc = "insert_log"
    /\ tasks.save.io = "pending"
    /\ IF ok
       THEN /\ logs' = insert_log(logs, tasks.save.buf, now, endian)
            /\ issued' = Append(issued, [log |-> tasks.save.log, now |-> now])
       ELSE UNCHANGED <<logs, issued>>
    /\ tasks' = [tasks EXCEPT !.save.io = IF ok THEN "ok" ELSE "err"]
    /\ UNCHANGED <<words_to_numbers, nums_to_words, last_available_number, filter,
                   endian, serializer, schema, ret, lock>>

\* insert_log has completed and save_log is polled again, once its thread
\* is free: it answers and returns, which drops the guard
SaveLogAnswer ==
    /\ tasks.save.pc = "insert_log"
    /\ tasks.save.io \in {"ok", "err"}
    /\ ~ReadOn(tasks.save.thread)
    /\ ret' = [op |-> "save_log", status |-> IF tasks.save.io = "ok" THEN 200 ELSE 500]
    /\ tasks' = [tasks EXCEPT !.save = IdleSave]
    /\ lock' = drop_guard(lock, 1)
    /\ UNCHANGED <<words_to_numbers, nums_to_words, last_available_number, filter,
                   logs, endian, serializer, schema, issued>>

\* POST /read arrives on thread th, whether or not a /save is in flight,
\* and runs up to the await of get_logs.  The request has no answer yet
ReadLogsGetLogs(from, to, prefix, words, th) ==
    /\ tasks.read.pc = "idle"
    /\ tasks' = [tasks EXCEPT !.read =
                    [IdleRead EXCEPT !.pc = "get_logs", !.thread = th, !.from = from,
                                     !.to = to, !.prefix = prefix, !.words = words,
                                     !.io = "pending"]]
    /\ ret' = NoRet
    /\ UNCHANGED <<words_to_numbers, nums_to_words, last_available_number, filter,
                   logs, endian, serializer, schema, issued, lock>>

\* the SELECT of get_logs runs in the store while read_logs is suspended;
\* ok tells whether it succeeded.  fetched is the rows it returned, as
\* get_logs decodes them when it goes on
ReadLogsSelect(ok) ==
    /\ tasks.read.pc = "get_logs"
    /\ tasks.read.io = "pending"
    /\ IF ok
       THEN \E fetched \in get_logs(logs, tasks.read.from, tasks.read.to, endian) :
               tasks' = [tasks EXCEPT !.read.io = "ok", !.read.fetched = fetched,
                                      !.read.seen = Len(logs)]
       ELSE tasks' = [tasks EXCEPT !.read.io = "err"]
    /\ UNCHANGED <<words_to_numbers, nums_to_words, last_available_number, filter,
                   logs, endian, serializer, schema, ret, issued, lock>>

\* get_logs has completed and read_logs is polled again on its thread: it
\* answers 500, or goes on to state.dict.read()
ReadLogsResume ==
    /\ tasks.read.pc = "get_logs"
    /\ tasks.read.io \in {"ok", "err"}
    /\ IF tasks.read.io = "ok"
       THEN /\ tasks' = [tasks EXCEPT !.read.pc = "read"]
            /\ UNCHANGED ret
       ELSE /\ tasks' = [tasks EXCEPT !.read = IdleRead]
            /\ ret' = [op |-> "read_logs", status |-> 500]
    /\ UNCHANGED <<words_to_numbers, nums_to_words, last_available_number, filter,
                   logs, endian, serializer, schema, issued, lock>>

\* state.dict.read() returns the guard, which it does when no /save holds
\* the write guard; read_logs filters, decodes, answers and returns, which
\* drops the guard
ReadLogsAnswer ==
    /\ tasks.read.pc = "read"
    /\ can_read(lock)
    /\ ret' = [op |-> "read_logs", status |-> 200,
               from |-> tasks.read.from, to |-> tasks.read.to,
               prefix |-> tasks.read.prefix, words |-> tasks.read.words,
               seen |-> tasks.read.seen,
               out |-> read_logs_body(Dict, tasks.read.fetched, tasks.read.prefix,
                                      tasks.read.words)]
    /\ tasks' = [tasks EXCEPT !.read = IdleRead]
    /\ UNCHANGED <<words_to_numbers, nums_to_words, last_available_number, filter,
                   logs, endian, serializer, schema, issued, lock>>

Next ==
    \/ \E log \in SaveTexts, th \in Threads : SaveLogSerialize(log, th)
    \/ \E now \in Clock, ok \in BOOLEAN : SaveLogInsert(now, ok)
    \/ SaveLogAnswer
    \/ \E from \in ReadFrom, to \in ReadTo, prefix \in ReadPrefixes,
          words \in ReadWords, th \in Threads :
          ReadLogsGetLogs(from, to, prefix, words, th)
    \/ \E ok \in BOOLEAN : ReadLogsSelect(ok)
    \/ ReadLogsResume
    \/ ReadLogsAnswer

Spec == Init /\ [][Next]_vars

\* C9: a query (from, to, prefix?, words?) returns the decoded text of
\* exactly the stored logs whose timestamp lies in [from, to] and that
\* satisfy every predicate present: some token starts with the prefix, and
\* some token is a listed word.  With neither present it returns every log
\* of the time range.  (The stored logs are those of the table when the
\* query read it: a /save that ends later is not part of the answer.)
C9_ReadReturnsMatching ==
    (ret.op = "read_logs" /\ ret.status = 200) =>
        LET Tokens(a) == Range(split_whitespace(a.log))
            Matches(a) ==
                /\ ret.from <= a.now /\ a.now <= ret.to
                /\ ret.prefix.present => \E w \in Tokens(a) : StartsWith(w, ret.prefix.value)
                /\ ret.words.present => Tokens(a) \cap Range(ret.words.value) # {}
            expected == SelectSeq(SubSeq(issued, 1, ret.seen), Matches)
        IN  SameBag(ret.out, [i \in 1..Len(expected) |-> normalize_ws(expected[i].log)])

----------------------------------------------------------------------------
(* Concurrent requests: specification SpecConc.  Every request is a task   *)
(* pinned to one worker thread.  The tasks of a thread are cooperative: a  *)
(* task runs on its thread until it awaits a store operation or returns,   *)
(* and a call of RwLock::write or RwLock::read that cannot be granted      *)
(* blocks the thread with the task on it.  The store runs the operation of *)
(* a suspended task in a step of its own, on no worker thread; the task    *)
(* goes on when its thread polls it again.  serialize is split into the    *)
(* assignments of its closure.  issued is the sequence of the inserts that *)
(* reached the table, [task, log, now], one per row.                       *)

TaskIds == 1..MaxTasks
ConcTexts == {<<"a">>, <<"b">>, <<"a", " ", "b">>}
ConcPrefixes == {Absent(<<>>), Some(<<"a">>)}

\* positions of a task: on its thread (running or blocked in a lock call),
\* or suspended at the await of a store operation
OnThread == {"write", "serialize", "mint_words", "mint_nums", "mint_push", "read", "filter"}
Suspended == {"insert_log", "get_logs"}

\* io is the store operation of the task: "none" before the task starts
\* one, "pending" until the store has run it, then "ok" or "err"
IdleTask ==
    [kind |-> "none", pc |-> "idle", thread |-> 0, log |-> <<>>, rest |-> <<>>,
     buf |-> <<>>, prefix |-> Absent(<<>>), io |-> "none", fetched |-> <<>>,
     status |-> 0, out |-> <<>>]

\* the thread has a task on it
Busy(th) == \E u \in TaskIds : tasks[u].thread = th /\ tasks[u].pc \in OnThread

\* where serialize goes after a token: the next token, or the call of insert_log
after_token(rest) == IF rest = <<>> THEN "insert_log" ELSE "serialize"

\* the store operation of a task that goes to pc: insert_log starts one
io_at(pc) == IF pc = "insert_log" THEN "pending" ELSE "none"

InitConc ==
    /\ words_to_numbers = NewModule.words_to_numbers
    /\ nums_to_words = NewModule.nums_to_words
    /\ last_available_number = NewModule.last_available_number
    /\ filter = NewModule.filter
    /\ logs = <<>>
    /\ endian = "le"
    /\ serializer = {}
    /\ schema = Migrated
    /\ ret = NoRet
    /\ issued = <<>>
    /\ tasks = [t \in TaskIds |-> IdleTask]
    /\ lock = Unlocked

\* POST /save arrives on thread th: save_log runs up to state.dict.write()
StartSave(t, th, log) ==
    /\ tasks[t].pc = "idle"
    /\ ~Busy(th)
    /\ tasks' = [tasks EXCEPT ![t] = [@ EXCEPT !.kind = "save", !.pc = "write",
                                                !.thread = th, !.log = log]]
    /\ UNCHANGED <<words_to_numbers, nums_to_words, last_available_number, filter,
                   logs, endian, serializer, schema, ret, issued, lock>>

\* state.dict.write() finds the lock held: the task parks, on its thread,
\* until the lock is released
ParkWrite(t) ==
    /\ tasks[t].pc = "write"
    /\ ~can_write(lock)
    /\ t \notin lock.waiting
    /\ lock' = [lock EXCEPT !.waiting = @ \cup {t}]
    /\ UNCHANGED <<words_to_numbers, nums_to_words, last_available_number, filter,
                   logs, endian, serializer, schema, ret, issued, tasks>>

\* state.dict.write() returns the guard; serialize starts on the tokens
AcquireWrite(t) ==
    /\ tasks[t].pc = "write"
    /\ can_write(lock)
    /\ lock' = [lock EXCEPT !.writer = t, !.waiting = @ \ {t}]
    /\ LET tokens == split_whitespace(tasks[t].log)
       IN  tasks' = [tasks EXCEPT ![t] = [@ EXCEPT !.rest = tokens,
                                                   !.pc = after_token(tokens),
                                                   !.io = io_at(after_token(tokens))]]
    /\ UNCHANGED <<words_to_numbers, nums_to_words, last_available_number, filter,
                   logs, endian, serializer, schema, ret, issued>>

\* the closure of serialize on the next token: a known token yields its
\* number, for a new one `self.last_available_number += 1`
SerializeToken(t) ==
    /\ tasks[t].pc = "serialize"
    /\ LET token == Head(tasks[t].rest)
       IN  IF token \in DOMAIN words_to_numbers
           THEN /\ tasks' = [tasks EXCEPT ![t] =
                        [@ EXCEPT !.buf = Append(@, words_to_numbers[token]),
                                  !.rest = Tail(@),
                                  !.pc = after_token(Tail(tasks[t].rest)),
                                  !.io = io_at(after_token(Tail(tasks[t].rest)))]]
                /\ UNCHANGED last_available_number
           ELSE /\ last_available_number < MaxNum + 1
                /\ last_available_number' = last_available_number + 1
                /\ tasks' = [tasks EXCEPT ![t].pc = "mint_words"]
    /\ UNCHANGED <<words_to_numbers, nums_to_words, filter, logs, endian, serializer, schema, ret, issued, lock>>

\* self.words_to_numbers.insert(token, self.last_available_number)
MintWords(t) ==
    /\ tasks[t].pc = "mint_words"
    /\ words_to_numbers' = Insert(words_to_numbers, Head(tasks[t].rest), last_available_number)
    /\ tasks' = [tasks EXCEPT ![t].pc = "mint_nums"]
    /\ UNCHANGED <<nums_to_words, last_available_number, filter, logs, endian, serializer, schema, ret, issued, lock>>

\* serialize without its insert into nums_to_words
MintNumsSkipped(t) ==
    /\ tasks[t].pc = "mint_nums"
    /\ tasks' = [tasks EXCEPT ![t].pc = "mint_push"]
    /\ UNCHANGED <<words_to_numbers, nums_to_words, last_available_number, filter,
                   logs, endian, serializer, schema, ret, issued, lock>>

\* self.nums_to_words.insert(self.last_available_number, token)
MintNums(t) ==
    /\ tasks[t].pc = "mint_nums"
    /\ nums_to_words' = Insert(nums_to_words, last_available_number, Head(tasks[t].rest))
    /\ tasks' = [tasks EXCEPT ![t].pc = "mint_push"]
    /\ UNCHANGED <<words_to_numbers, last_available_number, filter, logs, endian, serializer, schema, ret, issued, lock>>

\* self.filter.push(token, self.last_available_number); return self.last_available_number
MintPush(t) ==
    /\ tasks[t].pc = "mint_push"
    /\ filter' = push(filter, Head(tasks[t].rest), last_available_number)
    /\ tasks' = [tasks EXCEPT ![t] =
            [@ EXCEPT !.buf = Append(@, last_available_number),
                      !.rest = Tail(@),
                      !.pc = after_token(Tail(tasks[t].rest)),
                      !.io = io_at(after_token(Tail(tasks[t].rest)))]]
    /\ UNCHANGED <<words_to_numbers, nums_to_words, last_available_number, logs, endian, serializer, schema, ret, issued, lock>>

\* an error return that takes back what serialize minted
on_insert_error_rollback(d) == NewModule

\* `return Err(error::ErrorInternalServerError(..))`: the Module stays as it is
on_insert_error(d) == d

\* the INSERT of insert_log runs in the store, at the clock reading now,
\* while save_log is suspended holding the guard, or after its future was
\* dropped; ok tells whether it succeeded.  SQLite runs the statement as a
\* whole: the row is in the table exactly when execute returns Ok
InsertRuns(t, now, ok) ==
    /\ tasks[t].kind = "save"
    /\ tasks[t].io = "pending"
    /\ ok => Len(logs) < MaxLogs
    /\ IF ok
       THEN /\ logs' = insert_log(logs, tasks[t].buf, now, endian)
            /\ issued' = Append(issued, [task |-> t, log |-> tasks[t].log, now |-> now])
       ELSE UNCHANGED <<logs, issued>>
    /\ tasks' = [tasks EXCEPT ![t].io = IF ok THEN "ok" ELSE "err"]
    /\ UNCHANGED <<words_to_numbers, nums_to_words, last_available_number, filter,
                   endian, serializer, schema, ret, lock>>

\* insert_log has completed and save_log is polled again on its thread: it
\* answers and returns, which drops the guard
InsertReturns(t) ==
    /\ tasks[t].pc = "insert_log"
    /\ tasks[t].io \in {"ok", "err"}
    /\ ~Busy(tasks[t].thread)
    /\ SetDict(IF tasks[t].io = "ok" THEN Dict ELSE on_insert_error(Dict))
    /\ tasks' = [tasks EXCEPT ![t] = [@ EXCEPT !.pc = "done",
                                                !.status = IF tasks[t].io = "ok"
                                                           THEN 200 ELSE 500]]
    /\ lock' = drop_guard(lock, t)
    /\ UNCHANGED <<logs, endian, serializer, schema, ret, issued>>

\* POST /read arrives on thread th: read_logs runs up to the await of get_logs
StartRead(t, th, prefix) ==
    /\ tasks[t].pc = "idle"
    /\ ~Busy(th)
    /\ tasks' = [tasks EXCEPT ![t] = [@ EXCEPT !.kind = "read", !.pc = "get_logs",
                                                !.thread = th, !.prefix = prefix,
                                                !.io = "pending"]]
    /\ UNCHANGED <<words_to_numbers, nums_to_words, last_available_number, filter,
                   logs, endian, serializer, schema, ret, issued, lock>>

\* the SELECT of get_logs runs in the store while read_logs is suspended;
\* ok tells whether it succeeded.  fetched is the rows it returned, as
\* get_logs decodes them when it goes on
GetLogsRuns(t, ok) ==
    /\ tasks[t].pc = "get_logs"
    /\ tasks[t].io = "pending"
    /\ IF ok
       THEN \E fetched \in get_logs(logs, 0, 2 ^ (TsBits - 1) - 1, endian) :
               tasks' = [tasks EXCEPT ![t] = [@ EXCEPT !.io = "ok", !.fetched = fetched]]
       ELSE tasks' = [tasks EXCEPT ![t].io = "err"]
    /\ UNCHANGED <<words_to_numbers, nums_to_words, last_available_number, filter,
                   logs, endian, serializer, schema, ret, issued, lock>>

\* get_logs has completed and read_logs is polled again on its thread: it
\* answers 500, or goes on to state.dict.read()
GetLogsReturns(t) ==
    /\ tasks[t].pc = "get_logs"
    /\ tasks[t].io \in {"ok", "err"}
    /\ ~Busy(tasks[t].thread)
    /\ tasks' = [tasks EXCEPT ![t] = IF tasks[t].io = "ok"
                                     THEN [@ EXCEPT !.pc = "read"]
                                     ELSE [@ EXCEPT !.pc = "done", !.status = 500]]
    /\ UNCHANGED <<words_to_numbers, nums_to_words, last_available_number, filter,
                   logs, endian, serializer, schema, ret, issued, lock>>

\* state.dict.read() returns the guard
AcquireRead(t) ==
    /\ tasks[t].pc = "read"
    /\ can_read(lock)
    /\ lock' = [lock EXCEPT !.readers = @ \cup {t}]
    /\ tasks' = [tasks EXCEPT ![t].pc = "filter"]
    /\ UNCHANGED <<words_to_numbers, nums_to_words, last_available_number, filter,
                   logs, endian, serializer, schema, ret, issued>>

\* the filters and deserialize under the read guard, the answer, the return
Respond(t) ==
    /\ tasks[t].pc = "filter"
    /\ tasks' = [tasks EXCEPT ![t] =
            [@ EXCEPT !.pc = "done", !.status = 200,
                      !.out = read_logs_body(Dict, tasks[t].fetched, tasks[t].prefix,
                                             Absent(<<>>))]]
    /\ lock' = drop_guard(lock, t)
    /\ UNCHANGED <<words_to_numbers, nums_to_words, last_available_number, filter,
                   logs, endian, serializer, schema, ret, issued>>

\* the client goes away while the task is suspended: the future is dropped
\* on its thread with everything it holds.  An INSERT the store has not run
\* yet may still run (InsertRuns)
Cancel(t) ==
    /\ tasks[t].pc \in Suspended
    /\ ~Busy(tasks[t].thread)
    /\ tasks' = [tasks EXCEPT ![t].pc = "done"]
    /\ lock' = drop_guard(lock, t)
    /\ UNCHANGED <<words_to_numbers, nums_to_words, last_available_number, filter,
                   logs, endian, serializer, schema, ret, issued>>

\* the steps task t takes once its request has arrived and is not given up
Step(t) ==
    \/ ParkWrite(t)
    \/ AcquireWrite(t)
    \/ SerializeToken(t)
    \/ MintWords(t)
    \/ MintNums(t)
    \/ MintPush(t)
    \/ \E now \in Clock, ok \in BOOLEAN : InsertRuns(t, now, ok)
    \/ InsertReturns(t)
    \/ \E ok \in BOOLEAN : GetLogsRuns(t, ok)
    \/ GetLogsReturns(t)
    \/ AcquireRead(t)
    \/ Respond(t)

NextConc ==
    \/ \E t \in TaskIds, th \in Threads, log \in ConcTexts : StartSave(t, th, log)
    \/ \E t \in TaskIds, th \in Threads, prefix \in ConcPrefixes : StartRead(t, th, prefix)
    \/ \E t \in TaskIds : Step(t)
    \/ \E t \in TaskIds : Cancel(t)

SpecConc == InitConc /\ [][NextConc]_vars

\* C12: no task is suspended at a store operation (insert_log, get_logs)
\* while it holds the read or the write lock of the dictionary.
C12_NoLockAcrossAwait ==
    \A t \in TaskIds :
        tasks[t].pc \in Suspended => (lock.writer # t /\ t \notin lock.readers)

\* the cooperative scheduler polls every task that can take a step, and every
\* store operation completes
SpecConcFair == SpecConc /\ \A t \in TaskIds : WF_vars(Step(t))

\* C13: with every store operation completing, every request that arrived
\* completes, whatever the interleaving and the threads the tasks share: a
\* save whose insert is pending never blocks another request for ever.
C13_EveryRequestCompletes ==
    \A t \in TaskIds : (tasks[t].pc # "idle") ~> (tasks[t].pc = "done")

\* id->word and the trie hold exactly what word->id holds
MapsAgree ==
    /\ DOMAIN nums_to_words = {words_to_numbers[w] : w \in DOMAIN words_to_numbers}
    /\ \A w \in DOMAIN words_to_numbers :
          /\ nums_to_words[words_to_numbers[w]] = w
          /\ find_match(filter, w) = words_to_numbers[w]
    /\ find_prefix(filter, <<>>) = {words_to_numbers[w] : w \in DOMAIN words_to_numbers}

\* C14: under concurrent saves minting is atomic: no two distinct tokens
\* hold the same id, every id a save has returned for a token is the id the
\* token holds, and whenever a reader holds the lock, or nobody writes,
\* word->id, id->word and the trie agree.
C14_MintingAtomic ==
    /\ \A v \in DOMAIN words_to_numbers : \A w \in DOMAIN words_to_numbers :
          words_to_numbers[v] = words_to_numbers[w] => v = w
    /\ \A t \in TaskIds :
          LET tokens == split_whitespace(tasks[t].log)
          IN  \A i \in 1..Len(tasks[t].buf) :
                 /\ tokens[i] \in DOMAIN words_to_numbers
                 /\ words_to_numbers[tokens[i]] = tasks[t].buf[i]
    /\ (lock.writer = 0 \/ lock.readers # {}) => MapsAgree

\* one save is between two assignments of a minting while a save or a read
\* on another thread waits for the lock
C14_Witness ==
    \E t \in TaskIds : \E u \in TaskIds :
        /\ tasks[t].pc = "mint_nums"
        /\ tasks[u].pc \in {"write", "read"}
        /\ tasks[u].thread # tasks[t].thread
        /\ ~MapsAgree

\* C15: the encode of a log completes before its append: every id of every
\* row of the table, and of every row a read has fetched, is a key of
\* id->word, and no answer of a read holds the placeholder "[?]".
C15_NoPlaceholderInRead ==
    /\ \A i \in 1..Len(logs) :
          Range(unpack(logs[i].data, endian)) \subseteq DOMAIN nums_to_words
    /\ \A t \in TaskIds :
          /\ \A k \in 1..Len(tasks[t].fetched) :
                Range(tasks[t].fetched[k]) \subseteq DOMAIN nums_to_words
          /\ \A k \in 1..Len(tasks[t].out) :
                Range(Unknown) \cap Range(tasks[t].out[k]) = {}

\* a save is suspended at insert_log, holding the write guard, with its row
\* in the table, and a read on another thread has fetched that row and is
\* at state.dict.read()
C15_Witness ==
    \E t \in TaskIds : \E u \in TaskIds :
        /\ tasks[u].kind = "save" /\ tasks[u].pc = "insert_log" /\ tasks[u].io = "ok"
        /\ lock.writer = u
        /\ tasks[u].log = <<"a", " ", "b">>
        /\ tasks[t].kind = "read" /\ tasks[t].pc = "read"
        /\ tasks[t].thread # tasks[u].thread
        /\ tasks[t].fetched = <<tasks[u].buf>>

\* C16: when the insert of a save fails, or the request is given up after
\* its encode, the ids its encode minted stay: the dictionary still holds
\* them for the same tokens, and an encode of the same text returns them and
\* mints nothing.
C16_NoRollback ==
    \A t \in TaskIds :
        (tasks[t].kind = "save" /\ tasks[t].pc = "done" /\ tasks[t].status # 200) =>
            LET tokens == split_whitespace(tasks[t].log)
            IN  /\ Len(tasks[t].buf) = Len(tokens)
                /\ \A i \in 1..Len(tokens) :
                      /\ tokens[i] \in DOMAIN words_to_numbers
                      /\ words_to_numbers[tokens[i]] = tasks[t].buf[i]
                /\ serialize(Dict, tasks[t].log).out = tasks[t].buf
                /\ serialize(Dict, tasks[t].log).dict.last_available_number
                       = last_available_number

\* the insert of the save of "b" failed after it minted id 1 for b; a later
\* save of "a b" was answered 200 with b still 1
C16_Witness ==
    \E t \in TaskIds : \E u \in TaskIds :
        /\ tasks[t].kind = "save" /\ tasks[t].status = 500
        /\ tasks[t].log = <<"b">> /\ tasks[t].buf = <<1>>
        /\ tasks[u].status = 200
        /\ tasks[u].log = <<"a", " ", "b">> /\ tasks[u].buf = <<2, 1>>

\* C17: a save is answered 200 only if exactly one row holding the encoding
\* of its log was inserted; if the insert fails the answer is 500 and the
\* table holds no row, whole or partial, of that request.  Every row of the
\* table is the whole row of one insert.
C17_AckOnlyAfterInsert ==
    /\ Len(logs) = Len(issued)
    /\ \A t \in TaskIds :
          LET mine == {i \in 1..Len(issued) : issued[i].task = t}
          IN  /\ \A i \in mine :
                    /\ i <= Len(logs)
                    /\ unpack(logs[i].data, endian) = tasks[t].buf
                    /\ tasks[t].buf = serialize(Dict, tasks[t].log).out
              /\ (tasks[t].kind = "save" /\ tasks[t].status = 200) => Cardinality(mine) = 1
              /\ (tasks[t].kind = "save" /\ tasks[t].status = 500) => mine = {}
              /\ tasks[t].kind # "save" => mine = {}
              /\ (tasks[t].kind = "save" /\ tasks[t].pc = "done")
                     => tasks[t].status \in {0, 200, 500}

\* one save answered 200 and one answered 500, and one row in the table
C17_Witness ==
    \E t \in TaskIds : \E u \in TaskIds :
        /\ tasks[t].kind = "save" /\ tasks[t].status = 200
        /\ tasks[u].kind = "save" /\ tasks[u].status = 500
        /\ tasks[u].buf # <<>>
        /\ Len(logs) = 1

----------------------------------------------------------------------------
(* The dictionary with bulk loads: specification SpecLoad.  serialize,     *)
(* set_map_from and deserialize in any order on one Module.  issued is the *)
(* sequence of the calls made.                                             *)

\* a set_map_from that leaves the counter at the 0 it has just been set to
max_num_unset(m) == 0

\* self.words_to_numbers.iter().for_each(|(_, n)| if *n > last { last = *n })
max_num(m) ==
    IF DOMAIN m = {} THEN 0
    ELSE CHOOSE n \in {m[w] : w \in DOMAIN m} : \A w \in DOMAIN m : m[w] <= n

\* Module::nums_from_words for a word->id map that gives every id to one
\* word: each (word, id) is inserted into the id->word map held so far
nums_from_words(nums, m) ==
    [n \in DOMAIN nums \cup {m[w] : w \in DOMAIN m} |->
        IF \E w \in DOMAIN m : m[w] = n
        THEN CHOOSE w \in DOMAIN m : m[w] = n
        ELSE nums[n]]

\* Module::set_map_from
set_map_from(d, m) ==
    [words_to_numbers |-> m,
     nums_to_words |-> nums_from_words(d.nums_to_words, m),
     last_available_number |-> max_num(m),
     filter |-> d.filter]

\* the maps handed to set_map_from: every id held by one word, as in the
\* map a Module saves
LoadWords == SeqsUpTo(TextLetters, 1) \ {<<>>}
LoadMaps ==
    UNION {{m \in [ws -> 1..MaxLoadId] : \A v \in ws : \A w \in ws : m[v] = m[w] => v = w}
           : ws \in SUBSET LoadWords}

InitLoad ==
    /\ words_to_numbers = NewModule.words_to_numbers
    /\ nums_to_words = NewModule.nums_to_words
    /\ last_available_number = NewModule.last_available_number
    /\ filter = NewModule.filter
    /\ logs = <<>>
    /\ endian = "le"
    /\ serializer = {}
    /\ schema = {}
    /\ ret = NoRet
    /\ issued = <<>>
    /\ tasks = NoTasks
    /\ lock = Unlocked

LoadSerialize(log) ==
    /\ Len(issued) < MaxCalls
    /\ LET r == serialize(Dict, log)
       IN  /\ SetDict(r.dict)
           /\ ret' = [op |-> "serialize", log |-> log, out |-> r.out]
    /\ issued' = Append(issued, "serialize")
    /\ UNCHANGED <<logs, endian, serializer, schema, tasks, lock>>

SetMapFrom(m) ==
    /\ Len(issued) < MaxCalls
    /\ SetDict(set_map_from(Dict, m))
    /\ ret' = [op |-> "set_map_from", m |-> m]
    /\ issued' = Append(issued, "set_map_from")
    /\ UNCHANGED <<logs, endian, serializer, schema, tasks, lock>>

LoadDeserialize(buffer) ==
    /\ Len(issued) < MaxCalls
    /\ ret' = [op |-> "deserialize", buffer |-> buffer, out |-> deserialize(Dict, buffer)]
    /\ issued' = Append(issued, "deserialize")
    /\ UNCHANGED <<words_to_numbers, nums_to_words, last_available_number, filter,
                   logs, endian, serializer, schema, tasks, lock>>

NextLoad ==
    \/ \E log \in LogTexts : LoadSerialize(log)
    \/ \E m \in LoadMaps : SetMapFrom(m)
    \/ \E buffer \in Buffers : LoadDeserialize(buffer)

SpecLoad == InitLoad /\ [][NextLoad]_vars

\* the ids that are values of word->id
Values(m) == {m[w] : w \in DOMAIN m}

\* the text deserialize is to return: the word of each id that is a value of
\* word->id, "[?]" for every other id, single spaces between them
RECURSIVE Rendered(_, _)
Rendered(m, buffer) ==
    IF buffer = <<>> THEN <<>>
    ELSE LET n == Head(buffer)
             word == IF n \in Values(m) THEN CHOOSE w \in DOMAIN m : m[w] = n ELSE Unknown
         IN  word \o (IF Len(buffer) > 1 THEN <<Space>> ELSE <<>>) \o Rendered(m, Tail(buffer))

\* C18: after any sequence of serialize and set_map_from calls deserialize
\* never fails, and it renders every id that is not a value of the current
\* word->id as "[?]" (and every other id as its word).
C18_UnknownIdsRendered ==
    ret.op = "deserialize" => ret.out = Rendered(words_to_numbers, ret.buffer)

\* C19: after any sequence of serialize and set_map_from calls id->word is
\* the exact inverse of word->id: as many entries, and id->word[i] = w if
\* and only if word->id[w] = i.
C19_NumsInverseOfWords ==
    /\ Cardinality(DOMAIN nums_to_words) = Cardinality(DOMAIN words_to_numbers)
    /\ \A i \in DOMAIN nums_to_words : \A w \in DOMAIN words_to_numbers :
          nums_to_words[i] = w <=> words_to_numbers[w] = i
    /\ \A i \in DOMAIN nums_to_words : nums_to_words[i] \in DOMAIN words_to_numbers

\* C20: after set_map_from(m) the trie is rebuilt from m: for every prefix
\* find_prefix returns exactly the ids of the words of m that start with it.
C20_TrieRebuiltOnLoad ==
    ret.op = "set_map_from" =>
        \A prefix \in QueryPrefixes :
            find_prefix(filter, prefix)
                = {ret.m[w] : w \in {v \in DOMAIN ret.m : StartsWith(v, prefix)}}

\* the tokens serialize has minted so far, read off the trie: serialize
\* pushes every token it mints and nothing is ever removed from the trie
MintedTokens == {p \in DOMAIN filter : filter[p] # None}

\* C21: across any sequence of serialize and set_map_from calls no id is
\* minted for two different tokens, and the next id to mint stays above
\* every id minted so far and every id of word->id (it never decreases).
C21_IdsNeverReused ==
    /\ \A p \in MintedTokens : \A q \in MintedTokens : filter[p] = filter[q] => p = q
    /\ \A p \in MintedTokens : filter[p] <= last_available_number
    /\ \A w \in DOMAIN words_to_numbers : words_to_numbers[w] <= last_available_number

----------------------------------------------------------------------------
(* The snapshot of the dictionary: specification SpecSnap.  migrate, save  *)
(* and read of WarehouseSql on one database, serialize on the Module, and  *)
(* the restart of the process.  issued holds the word->id map of the last  *)
(* save that succeeded.  The ids stay far below 2^31, where `*n as i32`    *)
(* and `dict.num as u32` both keep the value.                              *)

\* INSERT INTO serializer (word, num) VALUES (?1, ?2) inside the transaction:
\* it fails when the table is missing, when word or num is already there
\* (both columns are UNIQUE) and when the database reports an error
insert_entry(objs, rows, w, n, fault) ==
    IF fault \/ "serializer" \notin objs \/ (\E r \in rows : r.word = w \/ r.num = n)
    THEN [ok |-> FALSE, rows |-> rows]
    ELSE [ok |-> TRUE, rows |-> rows \cup {[word |-> w, num |-> n]}]

\* `for (w, n) in s.iter()` of save, the map iterated in the order given;
\* the insert number fault_at meets a database error
RECURSIVE save_loop(_, _, _, _, _, _)
save_loop(objs, tx, m, order, k, fault_at) ==
    IF k > Len(order) THEN [ok |-> TRUE, rows |-> tx, done |-> k - 1]
    ELSE LET r == insert_entry(objs, tx, order[k], m[order[k]], fault_at = k)
         IN  IF r.ok THEN save_loop(objs, r.rows, m, order, k + 1, fault_at)
             ELSE [ok |-> FALSE, rows |-> tx, done |-> k - 1]

\* a save whose inserts stay in the table when it returns an error
rollback_keeps_inserts(before, tx) == tx

\* the transaction is dropped without a commit: its inserts are rolled back
rollback(before, tx) == before

\* SerializerSaver::save.  fault_at: -1 begin fails, 0 no database error,
\* k the k-th insert fails, Len(order) + 1 the commit fails
save(objs, rows, m, order, fault_at) ==
    IF fault_at = -1 THEN [ok |-> FALSE, rows |-> rows, done |-> 0]
    ELSE LET r == save_loop(objs, rows, m, order, 1, fault_at)
         IN  IF r.ok /\ fault_at # Len(order) + 1
             THEN [ok |-> TRUE, rows |-> r.rows, done |-> r.done]
             ELSE [ok |-> FALSE, rows |-> rollback(rows, r.rows), done |-> r.done]

\* SerializerReader::read: SELECT * FROM serializer into a map, then
\* Module::new(Node::new()) and set_map_from.  fault_at: -2 pool.acquire
\* fails, -1 fetch_all fails, 0 no error of the database, k from_row of the
\* k-th of the rows fetched fails
read(objs, rows, fault_at) ==
    IF fault_at \in {-2, -1} \/ "serializer" \notin objs \/ fault_at \in 1..Cardinality(rows)
    THEN [ok |-> FALSE, dict |-> NewModule]
    ELSE LET m == [w \in {r.word : r \in rows} |-> (CHOOSE r \in rows : r.word = w).num]
         IN  [ok |-> TRUE, dict |-> set_map_from(NewModule, m)]

\* the orders in which HashMap::iter may hand out the entries of m
IterOrders(m) ==
    LET n == Cardinality(DOMAIN m)
    IN  {o \in [1..n -> DOMAIN m] : \A i \in 1..n : \A j \in 1..n : o[i] = o[j] => i = j}

InitSnap ==
    /\ words_to_numbers = NewModule.words_to_numbers
    /\ nums_to_words = NewModule.nums_to_words
    /\ last_available_number = NewModule.last_available_number
    /\ filter = NewModule.filter
    /\ logs = <<>>
    /\ endian = "le"
    /\ serializer = {}
    /\ schema = {}
    /\ ret = NoRet
    /\ issued = <<>>
    /\ tasks = NoTasks
    /\ lock = Unlocked

Migrate(fault_at) ==
    /\ LET r == migrate(schema, fault_at)
       IN  /\ schema' = r.schema
           /\ ret' = [op |-> "migrate", ok |-> r.ok, fault_at |-> fault_at]
    /\ UNCHANGED <<words_to_numbers, nums_to_words, last_available_number, filter,
                   logs, endian, serializer, issued, tasks, lock>>

SnapSerialize(log) ==
    /\ last_available_number < MaxNum
    /\ LET r == serialize(Dict, log)
       IN  /\ SetDict(r.dict)
           /\ ret' = [op |-> "serialize", log |-> log, out |-> r.out]
    /\ UNCHANGED <<logs, endian, serializer, schema, issued, tasks, lock>>

Save(order, fault_at) ==
    /\ LET r == save(schema, serializer, words_to_numbers, order, fault_at)
       IN  /\ serializer' = r.rows
           /\ ret' = [op |-> "save", ok |-> r.ok, done |-> r.done, before |-> serializer]
           /\ issued' = IF r.ok THEN <<words_to_numbers>> ELSE issued
    /\ UNCHANGED <<words_to_numbers, nums_to_words, last_available_number, filter,
                   logs, endian, schema, tasks, lock>>

Read(fault_at) ==
    /\ LET r == read(schema, serializer, fault_at)
       IN  /\ IF r.ok THEN SetDict(r.dict)
              ELSE UNCHANGED <<words_to_numbers, nums_to_words, last_available_number, filter>>
           /\ ret' = [op |-> "read", ok |-> r.ok]
    /\ UNCHANGED <<logs, endian, serializer, schema, issued, tasks, lock>>

\* the process starts again: main builds a new Module on a new trie
Restart ==
    /\ SetDict(NewModule)
    /\ ret' = [op |-> "restart"]
    /\ UNCHANGED <<logs, endian, serializer, schema, issued, tasks, lock>>

NextSnap ==
    \/ \E fault_at \in -1..Len(SQL_COMMANDS) : Migrate(fault_at)
    \/ \E log \in ConcTexts : SnapSerialize(log)
    \/ \E order \in IterOrders(words_to_numbers) :
          \E fault_at \in -1..(Len(order) + 1) : Save(order, fault_at)
    \/ \E fault_at \in -2..Cardinality(serializer) : Read(fault_at)
    \/ Restart

SpecSnap == InitSnap /\ [][NextSnap]_vars

\* C22: when a dictionary D built by serialize calls (one that holds an id,
\* so that max(ids of D) exists) has been saved and a new Module is then
\* read from the same database, serialize on the new Module returns for
\* every token of D the id D gave it, and for a token D does not know the
\* id max(ids of D) + 1.
C22_SnapshotRoundTrip ==
    (ret.op = "read" /\ ret.ok /\ issued # <<>> /\ DOMAIN issued[1] # {}) =>
        LET D == issued[1]
        IN  /\ \A w \in DOMAIN D : serialize(Dict, w).out = <<D[w]>>
            /\ \A w \in LoadWords \ DOMAIN D :
                  \E n \in Values(D) :
                      /\ \A i \in Values(D) : i <= n
                      /\ serialize(Dict, w).out = <<n + 1>>

\* a Module read back from a saved dictionary of one word, which a new
\* word will extend
C22_Witness ==
    /\ ret.op = "read" /\ ret.ok
    /\ issued # <<>> /\ Cardinality(DOMAIN issued[1]) = 1
    /\ words_to_numbers = issued[1]
    /\ filter = NewNode

\* C23: save is all or nothing: when it returns an error the rows of table
\* serializer are exactly those before the call, and when it returns Ok
\* every entry of the dictionary is a row.
C23_SaveAllOrNothing ==
    ret.op = "save" =>
        IF ret.ok
        THEN \A w \in DOMAIN words_to_numbers :
                [word |-> w, num |-> words_to_numbers[w]] \in serializer
        ELSE serializer = ret.before

\* a save of two entries that failed after its first insert had been made
C23_Witness ==
    /\ ret.op = "save" /\ ~ret.ok /\ ret.done = 1
    /\ Cardinality(DOMAIN words_to_numbers) = 2
    /\ "serializer" \in schema

\* C24: migrate succeeds every time it is called, unless the database
\* reports an error, and leaves the schema a single call leaves.
C24_MigrateIdempotent ==
    (ret.op = "migrate" /\ ret.fault_at = 0) => (ret.ok /\ schema = Migrated)

----------------------------------------------------------------------------
(* The scan of the stored records: specification SpecScan.  The rows are   *)
(* written by insert_log or, with any blob, by another writer of the       *)
(* database; find_logs of WarehouseSql and of WarehouseMongo scan all of   *)
(* them (from = 0, to = the largest clock reading) and may meet an error   *)
(* of the database at any row.                                             *)

\* the result of a scan that returned Ok(data), returned Err, or panicked
ScanOk(data) == [kind |-> "ok", data |-> data]
ScanErr == [kind |-> "err", data |-> <<>>]
ScanPanic == [kind |-> "panic", data |-> <<>>]

\* the loop `for rec in rows` of WarehouseSql::find_logs from the k-th of
\* the rows fetched on; from_row of row fault_at returns an error.  The
\* inner loop reads log.data[i + 1..i + 3] for i = 0, 4, ..: an index past
\* the end of the blob panics
RECURSIVE sql_scan(_, _, _, _, _)
sql_scan(rows, e, k, fault_at, data) ==
    IF k > Len(rows) THEN ScanOk(data)
    ELSE IF fault_at = k THEN ScanErr
    ELSE IF Len(rows[k].data) % 4 # 0 THEN ScanPanic
    ELSE sql_scan(rows, e, k + 1, fault_at, Append(data, unpack(rows[k].data, e)))

\* WarehouseSql::find_logs with the errors of the database.  fault_at: -2
\* pool.acquire fails, -1 fetch_all fails, 0 no error, k from_row of the
\* k-th row fetched fails
sql_find_logs(rows, from, to, e, fault_at) ==
    IF fault_at \in {-2, -1} THEN ScanErr
    ELSE sql_scan(select_between(rows, ToI64(from), ToI64(to)), e, 1, fault_at, <<>>)

\* the loop `while let Ok(next_exists) = cursor.advance().await` of
\* WarehouseMongo::find_logs from document k on; the advance to document
\* advance_fault returns an error, which ends the loop, and
\* deserialize_current of document decode_fault returns an error
RECURSIVE mongo_scan(_, _, _, _, _, _)
mongo_scan(docs, e, k, advance_fault, decode_fault, result) ==
    IF advance_fault = k THEN ScanOk(result)
    ELSE IF k > Len(docs) THEN ScanOk(result)
    ELSE IF decode_fault = k THEN ScanErr
    ELSE IF Len(docs[k].data) % 4 # 0 THEN ScanPanic
    ELSE mongo_scan(docs, e, k + 1, advance_fault, decode_fault,
                    Append(result, unpack(docs[k].data, e)))

\* WarehouseMongo::find_logs with the errors of the database: find fails,
\* or the loop meets the faults of mongo_scan.  The find asks for no order
\* (`sort(doc! {})`): the cursor hands the documents out in the order of
\* the server's choice, that of the insertions or that of the index on
\* timestamp, and the faults count the documents in that order.  Every
\* result the find allows
mongo_find_logs_faulty(docs, e, find_fault, advance_fault, decode_fault) ==
    IF find_fault THEN {ScanErr}
    ELSE {mongo_scan(found, e, 1, advance_fault, decode_fault, <<>>) :
              found \in Orderings(docs)}

\* blobs of a row that insert_log has not written
ForeignBlobs == {<<1>>, <<1, 0, 0, 0, 2>>, <<2, 0, 0, 0>>}

InitScan ==
    /\ words_to_numbers = NewModule.words_to_numbers
    /\ nums_to_words = NewModule.nums_to_words
    /\ last_available_number = NewModule.last_available_number
    /\ filter = NewModule.filter
    /\ logs = <<>>
    /\ endian \in {"le", "be"}
    /\ serializer = {}
    /\ schema = Migrated
    /\ ret = NoRet
    /\ issued = <<>>
    /\ tasks = NoTasks
    /\ lock = Unlocked

ScanInsert(input, now) ==
    /\ Len(logs) < MaxLogs
    /\ logs' = insert_log(logs, input, now, endian)
    /\ ret' = [op |-> "insert_log"]
    /\ UNCHANGED <<words_to_numbers, nums_to_words, last_available_number, filter,
                   endian, serializer, schema, issued, tasks, lock>>

ForeignInsert(data, timestamp) ==
    /\ Len(logs) < MaxLogs
    /\ logs' = Append(logs, [timestamp |-> timestamp, data |-> data])
    /\ ret' = [op |-> "foreign insert"]
    /\ UNCHANGED <<words_to_numbers, nums_to_words, last_available_number, filter,
                   endian, serializer, schema, issued, tasks, lock>>

SqlFindLogs(fault_at) ==
    /\ ret' = [op |-> "find_logs", backend |-> "sql", faults |-> {fault_at} \ {0},
               result |-> sql_find_logs(logs, 0, 2 ^ (TsBits - 1) - 1, endian, fault_at)]
    /\ UNCHANGED <<words_to_numbers, nums_to_words, last_available_number, filter,
                   logs, endian, serializer, schema, issued, tasks, lock>>

MongoFindLogs(find_fault, advance_fault, decode_fault) ==
    /\ \E result \in mongo_find_logs_faulty(logs, endian, find_fault,
                                             advance_fault, decode_fault) :
          ret' = [op |-> "find_logs", backend |-> "mongo",
                  faults |-> ({advance_fault, decode_fault} \ {0})
                             \cup (IF find_fault THEN {-1} ELSE {}),
                  result |-> result]
    /\ UNCHANGED <<words_to_numbers, nums_to_words, last_available_number, filter,
                   logs, endian, serializer, schema, issued, tasks, lock>>

NextScan ==
    \/ \E input \in StoreBuffers, now \in Clock : ScanInsert(input, now)
    \/ \E data \in ForeignBlobs, timestamp \in Clock : ForeignInsert(data, timestamp)
    \/ \E fault_at \in -2..Len(logs) : SqlFindLogs(fault_at)
    \/ \E find_fault \in BOOLEAN, advance_fault \in 0..Len(logs),
          decode_fault \in 0..Len(logs) :
          MongoFindLogs(find_fault, advance_fault, decode_fault)

SpecScan == InitScan /\ [][NextScan]_vars

\* the rows whose blob has a length that is no multiple of 4
CorruptRows == {i \in 1..Len(logs) : Len(logs[i].data) % 4 # 0}

\* C25: a scan that reads a row whose blob has a length that is no multiple
\* of 4 returns an error value: it does not panic, and it returns no list
\* with a truncated or padded sequence for that row.
C25_CorruptRowIsError ==
    (ret.op = "find_logs" /\ ret.faults = {} /\ CorruptRows # {}) =>
        ret.result.kind = "err"

\* C26: a scan that meets an error of the database while rows are still to
\* be read does not return Ok: an Ok result holds every row.
C26_FailedScanIsError ==
    ret.op = "find_logs" =>
        /\ (ret.faults # {} /\ CorruptRows = {}) => ret.result.kind = "err"
        /\ ret.result.kind = "ok" => Len(ret.result.data) = Len(logs)

----------------------------------------------------------------------------
(* The failures of a request: specification SpecFail.  One POST /save and  *)
(* one POST /read, in flight together or not, each on a worker thread, in  *)
(* the steps of specification Spec: a handler runs up to its await, the    *)
(* store runs the INSERT or the SELECT while the handler is suspended, and *)
(* the handler goes on when its thread polls it again.  The store may      *)
(* return an error and the counter has IdBits bits:                        *)
(* `self.last_available_number += 1` at the largest id panics in a build   *)
(* with overflow checks, which poisons the RwLock whose write guard        *)
(* save_log holds, and wraps to 0 in a build without.  lock.poisoned tells *)
(* whether the RwLock is poisoned.                                         *)

\* the two things `+= 1` does at u32::MAX, by build profile
Overflows == {"panic", "wrap"}

\* Module::serialize from the token at the head of tokens on, with a
\* counter of IdBits bits
RECURSIVE serialize_checked(_, _, _, _)
serialize_checked(d, tokens, out, overflow) ==
    IF tokens = <<>> THEN [dict |-> d, out |-> out, panicked |-> FALSE]
    ELSE IF /\ Head(tokens) \notin DOMAIN d.words_to_numbers
            /\ d.last_available_number = 2 ^ IdBits - 1
         THEN IF overflow = "panic"
              THEN [dict |-> d, out |-> out, panicked |-> TRUE]
              ELSE LET r == serialize_token([d EXCEPT !.last_available_number = -1],
                                            Head(tokens))
                   IN  serialize_checked(r.dict, Tail(tokens), Append(out, r.num), overflow)
         ELSE LET r == serialize_token(d, Head(tokens))
              IN  serialize_checked(r.dict, Tail(tokens), Append(out, r.num), overflow)

\* a handler that answers 200 whatever the store returned
status_of_always_ok(ok) == 200

\* `if let Err(e) = .. { return Err(ErrorInternalServerError(..)) }` and
\* `let Ok(..) = .. else { return Err(ErrorInternalServerError(..)) }`
status_of(ok) == IF ok THEN 200 ELSE 500

\* no /read in flight
IdleReadFail ==
    [pc |-> "idle", thread |-> 0, prefix |-> Absent(<<>>), io |-> "none",
     fetched |-> <<>>]

InitFail ==
    /\ words_to_numbers = NewModule.words_to_numbers
    /\ nums_to_words = NewModule.nums_to_words
    /\ last_available_number = NewModule.last_available_number
    /\ filter = NewModule.filter
    /\ logs = <<>>
    /\ endian = "le"
    /\ serializer = {}
    /\ schema = Migrated
    /\ ret = NoRet
    /\ issued = <<>>
    /\ tasks = [save |-> IdleSave, read |-> IdleReadFail]
    /\ lock = Unlocked

\* POST /save arrives on thread th, whether or not a /read is in flight,
\* and runs up to the await of insert_log.  overflow: what the build does
\* when the counter overflows.  A request that panics gets no answer from
\* the handler (status 0), and the guard it holds is dropped by the
\* unwinding
FailSaveLog(log, overflow, th) ==
    /\ tasks.save.pc = "idle"
    /\ ~ReadOn(th)
    /\ can_write(lock)
    /\ IF lock.poisoned
       THEN /\ ret' = [op |-> "save_log", status |-> status_of(FALSE), cause |-> "poisoned"]
            /\ UNCHANGED <<words_to_numbers, nums_to_words, last_available_number, filter,
                           tasks, lock>>
       ELSE LET r == serialize_checked(Dict, split_whitespace(log), <<>>, overflow)
            IN  /\ SetDict(r.dict)
                /\ IF r.panicked
                   THEN /\ ret' = [op |-> "save_log", status |-> 0, cause |-> "panic"]
                        /\ lock' = [lock EXCEPT !.poisoned = TRUE]
                        /\ UNCHANGED tasks
                   ELSE /\ ret' = NoRet
                        /\ lock' = [lock EXCEPT !.writer = 1]
                        /\ tasks' = [tasks EXCEPT !.save = [pc |-> "insert_log",
                                                            thread |-> th, log |-> log,
                                                            buf |-> r.out,
                                                            io |-> "pending"]]
    /\ UNCHANGED <<logs, endian, serializer, schema, issued>>

\* the INSERT of insert_log runs in the store while save_log is suspended
\* holding the guard; ok tells whether it succeeded
FailSaveLogInsert(ok) ==
    /\ tasks.save.pc = "insert_log"
    /\ tasks.save.io = "pending"
    /\ ok => Len(logs) < MaxLogs
    /\ logs' = IF ok THEN insert_log(logs, tasks.save.buf, 0, endian) ELSE logs
    /\ tasks' = [tasks EXCEPT !.save.io = IF ok THEN "ok" ELSE "err"]
    /\ UNCHANGED <<words_to_numbers, nums_to_words, last_available_number, filter,
                   endian, serializer, schema, ret, issued, lock>>

\* insert_log has completed and save_log is polled again, once its thread
\* is free: it answers and returns, which drops the guard
FailSaveLogAnswer ==
    /\ tasks.save.pc = "insert_log"
    /\ tasks.save.io \in {"ok", "err"}
    /\ ~ReadOn(tasks.save.thread)
    /\ ret' = [op |-> "save_log", status |-> status_of(tasks.save.io = "ok"),
               cause |-> IF tasks.save.io = "ok" THEN "none" ELSE "store"]
    /\ tasks' = [tasks EXCEPT !.save = IdleSave]
    /\ lock' = drop_guard(lock, 1)
    /\ UNCHANGED <<words_to_numbers, nums_to_words, last_available_number, filter,
                   logs, endian, serializer, schema, issued>>

\* POST /read over every timestamp arrives on thread th, whether or not a
\* /save is in flight, and runs up to the await of get_logs
FailReadLogsGetLogs(prefix, th) ==
    /\ tasks.read.pc = "idle"
    /\ tasks' = [tasks EXCEPT !.read =
                    [IdleReadFail EXCEPT !.pc = "get_logs", !.thread = th,
                                         !.prefix = prefix, !.io = "pending"]]
    /\ ret' = NoRet
    /\ UNCHANGED <<words_to_numbers, nums_to_words, last_available_number, filter,
                   logs, endian, serializer, schema, issued, lock>>

\* the SELECT of get_logs runs in the store while read_logs is suspended;
\* ok tells whether it succeeded.  fetched is the rows it returned, as
\* get_logs decodes them when it goes on
FailReadLogsSelect(ok) ==
    /\ tasks.read.pc = "get_logs"
    /\ tasks.read.io = "pending"
    /\ IF ok
       THEN \E fetched \in get_logs(logs, 0, 2 ^ (TsBits - 1) - 1, endian) :
               tasks' = [tasks EXCEPT !.read.io = "ok", !.read.fetched = fetched]
       ELSE tasks' = [tasks EXCEPT !.read.io = "err"]
    /\ UNCHANGED <<words_to_numbers, nums_to_words, last_available_number, filter,
                   logs, endian, serializer, schema, ret, issued, lock>>

\* get_logs has completed and read_logs is polled again on its thread: it
\* answers 500, or goes on to state.dict.read()
FailReadLogsResume ==
    /\ tasks.read.pc = "get_logs"
    /\ tasks.read.io \in {"ok", "err"}
    /\ IF tasks.read.io = "ok"
       THEN /\ tasks' = [tasks EXCEPT !.read.pc = "read"]
            /\ UNCHANGED ret
       ELSE /\ tasks' = [tasks EXCEPT !.read = IdleReadFail]
            /\ ret' = [op |-> "read_logs", status |-> status_of(FALSE),
                       cause |-> "store", out |-> <<>>]
    /\ UNCHANGED <<words_to_numbers, nums_to_words, last_available_number, filter,
                   logs, endian, serializer, schema, issued, lock>>

\* state.dict.read() returns, which it does when no /save holds the write
\* guard: an error when the lock is poisoned, else the guard, under which
\* read_logs filters, decodes and answers
FailReadLogsAnswer ==
    /\ tasks.read.pc = "read"
    /\ can_read(lock)
    /\ IF lock.poisoned
       THEN ret' = [op |-> "read_logs", status |-> status_of(FALSE), cause |-> "poisoned",
                    out |-> <<>>]
       ELSE ret' = [op |-> "read_logs", status |-> status_of(TRUE), cause |-> "none",
                    out |-> read_logs_body(Dict, tasks.read.fetched,
                                           tasks.read.prefix, Absent(<<>>))]
    /\ tasks' = [tasks EXCEPT !.read = IdleReadFail]
    /\ UNCHANGED <<words_to_numbers, nums_to_words, last_available_number, filter,
                   logs, endian, serializer, schema, issued, lock>>

NextFail ==
    \/ \E log \in ConcTexts, overflow \in Overflows, th \in Threads :
          FailSaveLog(log, overflow, th)
    \/ \E ok \in BOOLEAN : FailSaveLogInsert(ok)
    \/ FailSaveLogAnswer
    \/ \E prefix \in ConcPrefixes, th \in Threads : FailReadLogsGetLogs(prefix, th)
    \/ \E ok \in BOOLEAN : FailReadLogsSelect(ok)
    \/ FailReadLogsResume
    \/ FailReadLogsAnswer

SpecFail == InitFail /\ [][NextFail]_vars

\* C27: a /save or /read request that meets a poisoned lock or an error of
\* the store is answered 500, and a request answered 200 met neither; a
\* /read answered 500 returns no logs, and no step of a /read changes the
\* dictionary or the rows.
C27_FailureIs500 ==
    [][/\ ret'.op \in {"save_log", "read_logs"} =>
             /\ ret'.cause \in {"poisoned", "store"} => ret'.status = 500
             /\ ret'.status = 200 => ret'.cause = "none"
             /\ (ret'.op = "read_logs" /\ ret'.status = 500) => ret'.out = <<>>
       /\ tasks'.read # tasks.read =>
             UNCHANGED <<words_to_numbers, nums_to_words, last_available_number,
                         filter, logs>>]_vars

\* a /read that met the lock a panicking /save had poisoned, with a row in
\* the store
C27_Witness ==
    /\ lock.poisoned
    /\ ret.op = "read_logs" /\ ret.status = 500 /\ ret.cause = "poisoned"
    /\ Len(logs) = 1
    /\ last_available_number = 2 ^ IdBits - 1

\* C28: on a host of either byte order the blob of every row is the
\* concatenation of the 4-byte little-endian encodings of the ids appended:
\* 4 bytes per id, byte k of id i being (id >> 8k) mod 256.
C28_BlobLittleEndian ==
    \A r \in 1..Len(logs) :
        LET input == issued[r].input
            data == logs[r].data
        IN  /\ Len(data) = 4 * Len(input)
            /\ \A i \in 1..Len(input) : \A k \in 0..3 :
                  data[4 * (i - 1) + k + 1] = (input[i] \div (256 ^ k)) % 256

\* C29: every row stored through /save holds at least one id, whatever the
\* text posted, the empty text included.
C29_StoredLogNonEmpty ==
    \A r \in 1..Len(logs) : unpack(logs[r].data, endian) # <<>>

\* the tokens with one space between each two
RECURSIVE SpaceJoined(_)
SpaceJoined(tokens) ==
    IF tokens = <<>> THEN <<>>
    ELSE IF Len(tokens) = 1 THEN Head(tokens)
    ELSE (Head(tokens) \o <<Space>>) \o SpaceJoined(Tail(tokens))

\* C30: in every dictionary built by serialize calls, deserialize of a
\* buffer of known and unknown ids, the empty one included, returns as
\* many tokens as the buffer has ids, one space between each two and no
\* whitespace before the first or after the last.
C30_DecodeTokenCount ==
    ret.op = "deserialize" =>
        LET tokens == split_whitespace(ret.out)
        IN  /\ Len(tokens) = Len(ret.buffer)
            /\ ret.out = SpaceJoined(tokens)

\* a buffer of a known and an unknown id decoded
C30_Witness ==
    /\ ret.op = "deserialize"
    /\ Len(ret.buffer) = 2
    /\ \E i \in 1..2 : ret.buffer[i] \in DOMAIN nums_to_words
    /\ \E i \in 1..2 : ret.buffer[i] \notin DOMAIN nums_to_words

----------------------------------------------------------------------------
(* The document store beside the relational one: WarehouseMongo fed the    *)
(* appends of specification SpecStore at the same clock readings.          *)

\* WarehouseMongo::insert_log with the clock reading now (in ns):
\* DateTime::now() is that instant in whole milliseconds
mongo_insert_log(docs, input, now, e) ==
    Append(docs, [timestamp |-> now \div NsPerMs, data |-> pack(input, e)])

\* the collection after the appends of calls, each an [input, now]
RECURSIVE mongo_appends(_, _)
mongo_appends(calls, e) ==
    IF calls = <<>> THEN <<>>
    ELSE mongo_insert_log(mongo_appends(SubSeq(calls, 1, Len(calls) - 1), e),
                          calls[Len(calls)].input, calls[Len(calls)].now, e)

\* WarehouseMongo::find_logs when the database reports no error: the filter
\* $gte from.as_millis(), $lte to.as_millis() on timestamp, then the scan
\* of the documents found, in each order the find, which asks for none,
\* may hand them out
mongo_find_logs(docs, from, to, e) ==
    LET Between(doc) == /\ from \div NsPerMs <= doc.timestamp
                        /\ doc.timestamp <= to \div NsPerMs
    IN  {mongo_scan(found, e, 1, 0, 0, <<>>).data :
             found \in Orderings(SelectSeq(docs, Between))}

\* C31: after the same appends at the same clock readings, find_logs of
\* the relational store and find_logs of the document store return, for
\* the same from and to, the same id sequences the same number of times.
C31_BackendsAgree ==
    (ret.op = "find_logs" /\ ret.ok) =>
        \E found \in mongo_find_logs(mongo_appends(issued, endian), ret.from, ret.to, endian) :
            SameBag(ret.out, found)

\* C32: no step of the service updates or deletes a row: every row stays
\* at its place with its timestamp and its blob, so no range loses a
\* record; and a /read leaves the rows and the dictionary as they were,
\* also when its words filter names words the dictionary does not know.
C32_AppendOnly ==
    [][/\ Len(logs') >= Len(logs)
       /\ \A i \in 1..Len(logs) : logs'[i] = logs[i]
       /\ tasks'.read # tasks.read =>
             UNCHANGED <<words_to_numbers, nums_to_words, last_available_number, filter,
                         logs>>]_vars

\* a /read over two rows whose words filter names a word the dictionary
\* does not know
C32_Witness ==
    /\ ret.op = "read_logs" /\ ret.status = 200
    /\ Len(logs) = 2
    /\ ret.words.present
    /\ \E i \in 1..Len(ret.words.value) : ret.words.value[i] \notin DOMAIN words_to_numbers

\* C33: in every dictionary reached by serialize calls the counter is the
\* largest id of word->id, or 0 when word->id is empty, so that the next
\* id minted is above every id of the mapping.
C33_CounterIsLargestId ==
    /\ DOMAIN words_to_numbers = {} => last_available_number = 0
    /\ DOMAIN words_to_numbers # {} => last_available_number \in Values(words_to_numbers)
    /\ \A w \in DOMAIN words_to_numbers : words_to_numbers[w] <= last_available_number

\* C35: with ids of IdBits bits, no token is given the id 0 and a token
\* minted later has the larger id, also once the largest id has been given
\* out.  (serialize mints b after a exactly when it leaves the counter at
\* the id of b.)
C35_MintedIdsIncrease ==
    /\ \A w \in DOMAIN words_to_numbers : words_to_numbers[w] # 0
    /\ \A p \in MintedTokens : filter[p] <= last_available_number

----------------------------------------------------------------------------
(* The trie under words and prefixes with a character of two bytes:        *)
(* specification SpecUtf8, the actions of SpecTrie on other strings.       *)

Utf8Words == SeqsUpTo({"a", "é"}, MaxWordLen) \ {<<>>}
Utf8Prefixes == SeqsUpTo({"a", "é", "É"}, MaxPrefixLen)

\* Filter::push on a word that was pushed before, with a new num
TrieOverwrite(s, num) ==
    /\ Cardinality(issued) < MaxPushes
    /\ s \in PushedWords
    /\ filter' = push(filter, s, num)
    /\ issued' = issued \cup {<<s, num>>}
    /\ ret' = [op |-> "push", s |-> s, num |-> num]
    /\ UNCHANGED <<words_to_numbers, nums_to_words, last_available_number, logs, endian, serializer, schema>>
    /\ UNCHANGED <<tasks, lock>>

NextUtf8 ==
    \/ \E s \in Utf8Words : TriePush(s, Cardinality(issued))
    \/ \E s \in Utf8Words : TrieOverwrite(s, Cardinality(issued))
    \/ \E s \in Utf8Prefixes : TrieFindPrefix(s)
    \/ \E s \in Utf8Prefixes : TrieFindPrefixCaseInsensitive(s)

SpecUtf8 == InitTrie /\ [][NextUtf8]_vars

\* C34: find_prefix and find_prefix_case_insensitive return a set for every
\* trie and every prefix, also one with characters of more than one byte:
\* neither panics.
C34_TrieQueriesCannotFail ==
    ret.op \in {"find_prefix", "find_prefix_case_insensitive"} => Panicked \notin ret.out

\* C36: push(word, id) makes find_match(word) return id, also when word had
\* another id before, and leaves find_match(w) as it was for every other
\* string w.
C36_PushFrame ==
    [][ret'.op = "push" =>
          /\ find_match(filter', ret'.s) = ret'.num
          /\ \A w \in SeqsUpTo({"a", "é", "É"}, MaxWordLen) :
                 w # ret'.s => find_match(filter', w) = find_match(filter, w)]_vars

\* a word pushed a second time with another num, next to another terminal
C36_Witness ==
    /\ ret.op = "push"
    /\ \E p \in issued : p[1] = ret.s /\ p[2] # ret.num
    /\ find_match(filter, ret.s) = ret.num
    /\ \E w \in PushedWords : w # ret.s /\ find_match(filter, w) # None

\* C37: on every dictionary, filtering by words after filtering by a prefix
\* gives the same list as filtering by the prefix after filtering by the
\* words, and filtering twice by the same prefix, or by the same words,
\* gives the same list as filtering once.
C37_FiltersCommute ==
    /\ ret.op = "filter_prefixed" =>
          /\ \A words \in QueryWords :
                 filter_word(Dict, words, ret.out)
                     = filter_prefixed(Dict, ret.word, filter_word(Dict, words, ret.buffers))
          /\ filter_prefixed(Dict, ret.word, ret.out) = ret.out
    /\ ret.op = "filter_word" =>
          /\ \A word \in QueryPrefixes :
                 filter_prefixed(Dict, word, ret.out)
                     = filter_word(Dict, ret.words, filter_prefixed(Dict, word, ret.buffers))
          /\ filter_word(Dict, ret.words, ret.out) = ret.out

\* the prefix drops one buffer, the words then drop another of the two kept
C37_Witness ==
    /\ ret.op = "filter_prefixed"
    /\ Len(ret.buffers) = 2
    /\ Len(ret.out) = 1
    /\ \E words \in QueryWords :
          /\ filter_word(Dict, words, ret.out) = <<>>
          /\ filter_word(Dict, words, ret.buffers) # <<>>

\* C38: a /read whose prefix is present and empty returns the same logs as
\* the same query with the prefix absent (both on the rows the table held
\* when the query read it).
C38_EmptyPrefixIsNoPrefix ==
    (ret.op = "read_logs" /\ ret.status = 200 /\ ret.prefix = Some(<<>>)) =>
        \E fetched \in get_logs(SubSeq(logs, 1, ret.seen), ret.from, ret.to, endian) :
            SameBag(ret.out, read_logs_body(Dict, fetched, Absent(<<>>), ret.words))

====
